---- MODULE Spec2Model ----
(***************************************************************************)
(* State-machine model of the resource-allocation and auto-scheduling core *)
(* of nesc-planering: the interval algebra and the greedy scheduler of     *)
(* scheduler.py, and the scope-checked allocation write paths of main.py.  *)
(*                                                                         *)
(* Instants are integers counting ticks from Monday 00:00:00 of week 0;    *)
(* one second is MicrosPerSecond ticks, so an instant has an hour, a       *)
(* minute, a second and a sub-second field, like a Python datetime.        *)
(* Dates are day numbers; day 0 is a Monday and weekday(d) = d % 7.        *)
(***************************************************************************)
EXTENDS Integers, Sequences, FiniteSets, TLC

VARIABLES
    \* ---- interval algebra exercised on its own
    base,           \* the base interval <<start, end>> handed to _subtract_intervals
    busyIn,         \* the list of busy intervals handed to _subtract_intervals
    freeOut,        \* what _subtract_intervals(base, busyIn) returned
    \* ---- scheduler: persisted tables
    person,         \* the Person row the runs are for
    wi,             \* the WorkItem row the runs are for
    blocks,         \* ScheduleBlock table; a row's id is its index
    timeoffs,       \* TimeOff table
    nSeed,          \* number of ScheduleBlock rows that existed before any run
    \* ---- scheduler: locals of the running auto_schedule_next_available_same_person
    pc,             \* "idle" | "loop" | "done"
    from_dt,        \* argument from_dt of the current run
    cursor,
    end_horizon,
    remaining,
    created_ids,
    result,         \* the AutoScheduleResult returned by the last finished run
    \* ---- allocation write paths
    allocations,      \* Allocation table (percent of a person's time on a project)
    unit_allocations, \* UnitAllocation table (minutes of a work item for a person)
    call,             \* the last request: handler, override flag, and the tables as
                      \* its session saw them after flush (before commit or rollback)
    response,         \* the last response: status and JSON body
    \* ---- snap-to-grid exercised on its own
    snap_in,          \* the instant handed to _ceil_to_snap
    snap_out,         \* <<_ceil_to_snap(t, 60), _ceil_to_snap(_ceil_to_snap(t, 60), 60)>>
    \* ---- capacity and utilization views
    adhoc_allocations, \* AdhocAllocation table
    grid,             \* what the last view computed
    \* ---- two auto-schedule runs of one person side by side
    runs,             \* run id -> the locals of that run
    \* ---- the two workday predicates side by side
    probe,            \* the last profile and date asked, with both answers
    \* ---- allocation requests of several sessions side by side
    txs,              \* session id -> the request in flight and what its session holds
    \* ---- deletions of members, projects and work items
    deleted           \* the ids of the Person, Project and WorkItem rows deleted so far

subVars   == <<base, busyIn, freeOut>>
tableVars == <<person, wi, blocks, timeoffs, nSeed>>
runVars   == <<pc, from_dt, cursor, end_horizon, remaining, created_ids, result>>
schedVars == <<tableVars, runVars>>
allocVars == <<allocations, unit_allocations, call, response>>
snapVars  == <<snap_in, snap_out>>
viewVars  == <<adhoc_allocations, grid>>
concVars  == <<runs>>
restVars  == <<probe, txs, deleted>>
extVars   == <<snapVars, viewVars, concVars, restVars>>
vars      == <<subVars, schedVars, allocVars, extVars>>

Max(a, b) == IF a >= b THEN a ELSE b
Min(a, b) == IF a <= b THEN a ELSE b

(***************************************************************************)
(* Interval algebra: scheduler.py _subtract_intervals.                     *)
(***************************************************************************)

\* [(max(start, a), min(end, b)) for a, b in blocks if b > start and a < end]
RECURSIVE ClipBlocks(_, _, _)
ClipBlocks(start, end, bl) ==
    IF bl = <<>> THEN <<>>
    ELSE LET x    == Head(bl)
             rest == ClipBlocks(start, end, Tail(bl))
         IN  IF x[2] > start /\ x[1] < end
             THEN << <<Max(start, x[1]), Min(end, x[2])>> >> \o rest
             ELSE rest

\* list.insert keeping the order of equal keys: x goes after every element
\* whose key is <= its own (sorted() is stable)
RECURSIVE InsertByStart(_, _)
InsertByStart(x, s) ==
    IF s = <<>> THEN <<x>>
    ELSE IF Head(s)[1] <= x[1]
         THEN <<Head(s)>> \o InsertByStart(x, Tail(s))
         ELSE <<x>> \o s

\* a sort left out: the clipped list is swept in the order given
SortedNoSort(s) == s

\* sorted(..., key=lambda x: x[0])
RECURSIVE SortedByStart(_)
SortedByStart(s) ==
    IF s = <<>> THEN <<>>
    ELSE InsertByStart(s[Len(s)], SortedByStart(SubSeq(s, 1, Len(s) - 1)))

\* the sweep: for a, b in blocks: if a > cur: free.append((cur, a)); cur = max(cur, b)
\* then: if cur < end: free.append((cur, end))
RECURSIVE Sweep(_, _, _, _)
Sweep(bl, cur, end, free) ==
    IF bl = <<>>
    THEN IF cur < end THEN Append(free, <<cur, end>>) ELSE free
    ELSE LET a == Head(bl)[1]
             b == Head(bl)[2]
         IN  Sweep(Tail(bl), Max(cur, b), end,
                   IF a > cur THEN Append(free, <<cur, a>>) ELSE free)

_subtract_intervals(bs, bl) ==
    LET start == bs[1]
        end   == bs[2]
    IN  IF start >= end THEN <<>>
        ELSE Sweep(SortedByStart(ClipBlocks(start, end, bl)), start, end, <<>>)

(***************************************************************************)
(* Calendar arithmetic on instants (datetime fields, replace, timedelta).  *)
(***************************************************************************)

\* resolution of the sub-second field: ticks per second
MicrosPerSecond == 2

TicksPerMinute == 60 * MicrosPerSecond
TicksPerHour   == 60 * TicksPerMinute
TicksPerDay    == 24 * TicksPerHour

\* datetime(day, hour, minute, second, microsecond)
At(d, h, m, s, us) ==
    d * TicksPerDay + h * TicksPerHour + m * TicksPerMinute + s * MicrosPerSecond + us

Date(dt)        == dt \div TicksPerDay
Hour(dt)        == (dt % TicksPerDay) \div TicksPerHour
Minute(dt)      == (dt % TicksPerHour) \div TicksPerMinute
Second(dt)      == (dt % TicksPerMinute) \div MicrosPerSecond
Microsecond(dt) == dt % MicrosPerSecond
Weekday(dt)     == Date(dt) % 7

\* timedelta(minutes=n), timedelta(days=n), timedelta(weeks=n)
Minutes(n) == n * TicksPerMinute
Days(n)    == n * TicksPerDay
Weeks(n)   == n * 7 * TicksPerDay

\* int((b - a).total_seconds() // 60)
WholeMinutes(a, b) == (b - a) \div TicksPerMinute

WEEK_SNAP_MIN == 60

\* _parse_hhmm: the text "HH:MM" is carried as the pair <<HH, MM>>
_parse_hhmm(s) == [hour |-> s[1], minute |-> s[2]]

\* the seconds are not looked at: an instant within a boundary minute stays
_ceil_ignoring_seconds(dt, snap_minutes) ==
    LET total_minutes == Hour(dt) * 60 + Minute(dt)
        remainder     == total_minutes % snap_minutes
        zeroed        == At(Date(dt), Hour(dt), Minute(dt), 0, 0)
    IN  IF remainder = 0 THEN zeroed ELSE zeroed + Minutes(snap_minutes - remainder)

\* no early return: an instant on a boundary moves on to the next one
_ceil_always_next(dt, snap_minutes) ==
    LET total_minutes == Hour(dt) * 60 + Minute(dt)
        remainder     == total_minutes % snap_minutes
    IN  At(Date(dt), Hour(dt), Minute(dt), 0, 0) + Minutes(snap_minutes - remainder)

_ceil_to_snap(dt, snap_minutes) ==
    LET total_minutes == Hour(dt) * 60 + Minute(dt)
        remainder     == total_minutes % snap_minutes
        zeroed        == At(Date(dt), Hour(dt), Minute(dt), 0, 0)
    IN  IF remainder = 0 /\ Second(dt) = 0 /\ Microsecond(dt) = 0
        THEN zeroed
        ELSE zeroed + Minutes(snap_minutes - remainder)

\* scheduler.py _is_workday: work_days is carried as the set of the integers
\* its comma-separated text holds
_is_workday(p, dt) == Weekday(dt) \in p.work_days

_day_bounds(p, dt) ==
    LET start_t == _parse_hhmm(p.work_start)
        end_t   == _parse_hhmm(p.work_end)
    IN  [start |-> At(Date(dt), start_t.hour, start_t.minute, 0, 0),
         end   |-> At(Date(dt), end_t.hour, end_t.minute, 0, 0)]


(***************************************************************************)
(* The tables a run reads, and the inputs the model draws.                 *)
(***************************************************************************)

\* longest horizon (in weeks) a run is started with
MaxHorizonWeeks == 1

Mon == 0
Tue == 1
Wed == 2
Fri == 4
Sat == 5

MonFri == {0, 1, 2, 3, 4}

\* a Person row; the runs are for person 1 and work item 1
Profile(ws, we, wd) ==
    [id |-> 1, company_id |-> 1, work_start |-> ws, work_end |-> we, work_days |-> wd]

\* models.py defaults, an early and sparse week, bounds off the grid,
\* no workdays at all, and dayStart >= dayEnd
Profiles ==
    { Profile(<<8, 0>>,  <<17, 0>>,  MonFri),
      Profile(<<6, 0>>,  <<10, 0>>,  {0, 2}),
      Profile(<<8, 30>>, <<11, 30>>, MonFri),
      Profile(<<8, 0>>,  <<17, 0>>,  {}),
      Profile(<<17, 0>>, <<8, 0>>,   0 .. 6) }

TotalMinutes == {120, 180, 150, 3000}

\* every row is stored locked
BlockLocked(pid, wid, s, e, l) ==
    [person_id |-> pid, work_item_id |-> wid, start |-> s, end |-> e, locked |-> TRUE]

Block(pid, wid, s, e, l) ==
    [person_id |-> pid, work_item_id |-> wid, start |-> s, end |-> e, locked |-> l]

Off(pid, s, e) == [person_id |-> pid, start |-> s, end |-> e]

\* the rows that exist before the first run, <<ScheduleBlock rows, TimeOff rows>>,
\* given the id the runs are for and the id of another person and work item
SeedTables(RunId, OtherId) ==
    { << <<>>, <<>> >>,
      \* a locked block 08:00-09:00 and time off 09:00-10:00 on the Monday
      << << Block(RunId, OtherId, At(Mon, 8, 0, 0, 0), At(Mon, 9, 0, 0, 0), TRUE) >>,
         << Off(RunId, At(Mon, 9, 0, 0, 0), At(Mon, 10, 0, 0, 0)) >> >>,
      \* an unlocked block of the same work item in the middle of the Monday,
      \* and a block of another person
      << << Block(RunId, RunId, At(Mon, 10, 0, 0, 0), At(Mon, 11, 0, 0, 0), FALSE),
            Block(OtherId, RunId, At(Mon, 8, 0, 0, 0), At(Mon, 10, 0, 0, 0), FALSE) >>,
         << Off(OtherId, At(Mon, 0, 0, 0, 0), At(Sat, 0, 0, 0, 0)) >> >>,
      \* endpoints off the grid, overlapping rows, a block across midnight
      << << Block(RunId, OtherId, At(Tue, 16, 0, 0, 0), At(Wed, 9, 0, 0, 0), FALSE),
            Block(RunId, RunId, At(Mon, 8, 50, 0, 0), At(Mon, 9, 40, 30, 0), TRUE) >>,
         << Off(RunId, At(Mon, 8, 20, 30, 1), At(Mon, 9, 10, 0, 0)) >> >>,
      \* time off over the whole first week
      << <<>>,
         << Off(RunId, At(Mon, 0, 0, 0, 0), At(Mon + 7, 0, 0, 0, 0)) >> >> }

FromInstants ==
    { At(Mon, 7, 0, 0, 0),
      At(Mon, 9, 30, 0, 1),
      At(Mon, 12, 0, 0, 0),
      At(Fri, 23, 30, 15, 0),
      At(Sat, 10, 0, 0, 0) }

(***************************************************************************)
(* auto_schedule_next_available_same_person, one action per path through   *)
(* one iteration of its while loop.                                        *)
(***************************************************************************)

BlockMinutes(b) == WholeMinutes(b.start, b.end)

\* the rows of the work item are summed whoever they belong to
RECURSIVE ScheduledMinutesAnyPerson(_, _, _)
ScheduledMinutesAnyPerson(bl, wid, pid) ==
    IF bl = <<>> THEN 0
    ELSE (IF Head(bl).work_item_id = wid THEN BlockMinutes(Head(bl)) ELSE 0)
         + ScheduledMinutesAnyPerson(Tail(bl), wid, pid)

\* the minutes of the rows select(ScheduleBlock).where(work_item_id, person_id) returns
RECURSIVE ScheduledMinutes(_, _, _)
ScheduledMinutes(bl, wid, pid) ==
    IF bl = <<>> THEN 0
    ELSE (IF Head(bl).work_item_id = wid /\ Head(bl).person_id = pid
          THEN BlockMinutes(Head(bl)) ELSE 0)
         + ScheduledMinutes(Tail(bl), wid, pid)

\* a row counts as busy only when it is locked
IsBusyBlockLockedOnly(b) == b.locked = TRUE

\* if b.locked is False or b.locked is True
IsBusyBlock(b) == b.locked = FALSE \/ b.locked = TRUE

\* rows of a table of person pid with end > day0 and start < day1, as (start, end)
RECURSIVE RowsOverlapping(_, _, _, _)
RowsOverlapping(rows, pid, day0, day1) ==
    IF rows = <<>> THEN <<>>
    ELSE LET r    == Head(rows)
             rest == RowsOverlapping(Tail(rows), pid, day0, day1)
         IN  IF r.person_id = pid /\ r.end > day0 /\ r.start < day1
             THEN <<r>> \o rest
             ELSE rest

RECURSIVE BusyOfBlocks(_)
BusyOfBlocks(rows) ==
    IF rows = <<>> THEN <<>>
    ELSE (IF IsBusyBlock(Head(rows))
          THEN << <<Head(rows).start, Head(rows).end>> >> ELSE <<>>)
         \o BusyOfBlocks(Tail(rows))

RECURSIVE BusyOfOffs(_)
BusyOfOffs(rows) ==
    IF rows = <<>> THEN <<>>
    ELSE << <<Head(rows).start, Head(rows).end>> >> \o BusyOfOffs(Tail(rows))

\* the busy list gathered for the day [day0, day1)
BusyForDay(bl, offs, pid, day0, day1) ==
    BusyOfBlocks(RowsOverlapping(bl, pid, day0, day1))
    \o BusyOfOffs(RowsOverlapping(offs, pid, day0, day1))

\* the block takes everything that is left, whole hours or not
BlockMinUnfloored(rem, avail_min) == Min(rem, avail_min)

\* the block takes one grid unit at a time
BlockMinOneUnit(rem, avail_min) == Min(WEEK_SNAP_MIN, (rem \div WEEK_SNAP_MIN) * WEEK_SNAP_MIN)

\* the remainder is rounded up to a whole grid unit when the interval has room
BlockMinCeiled(rem, avail_min) ==
    Min(((rem + WEEK_SNAP_MIN - 1) \div WEEK_SNAP_MIN) * WEEK_SNAP_MIN, avail_min)

\* lines 125-126: min(remaining, avail_min) rounded down to whole grid units
BlockMin(rem, avail_min) == (Min(rem, avail_min) \div WEEK_SNAP_MIN) * WEEK_SNAP_MIN

\* the start of a block is max(a, cursor) as it is, not moved to the grid
RECURSIVE FindSlotUnsnapped(_, _, _)
FindSlotUnsnapped(free, cur, rem) ==
    IF free = <<>> THEN <<>>
    ELSE LET b         == Head(free)[2]
             start     == Max(Head(free)[1], cur)
             avail_min == (WholeMinutes(start, b) \div WEEK_SNAP_MIN) * WEEK_SNAP_MIN
             block_min == BlockMin(rem, avail_min)
         IN  IF start >= b \/ avail_min <= 0 \/ block_min <= 0
             THEN FindSlotUnsnapped(Tail(free), cur, rem)
             ELSE <<start, block_min>>

\* the for loop over free: the first interval that yields a block, as
\* <<start, block_min>>, or <<>> when none does
RECURSIVE FindSlot(_, _, _)
FindSlot(free, cur, rem) ==
    IF free = <<>> THEN <<>>
    ELSE LET a         == Head(free)[1]
             b         == Head(free)[2]
             start     == _ceil_to_snap(Max(a, cur), WEEK_SNAP_MIN)
             avail_min == (WholeMinutes(start, b) \div WEEK_SNAP_MIN) * WEEK_SNAP_MIN
             block_min == BlockMin(rem, avail_min)
         IN  IF start >= b THEN FindSlot(Tail(free), cur, rem)
             ELSE IF avail_min <= 0 THEN FindSlot(Tail(free), cur, rem)
             ELSE IF block_min <= 0 THEN FindSlot(Tail(free), cur, rem)
             ELSE <<start, block_min>>

LoopCond == remaining > 0 /\ cursor < end_horizon

\* the cursor after "if cursor < day_start: cursor = day_start"
Clamped == Max(cursor, _day_bounds(person, cursor).start)

\* the day is not advanced
SameDayStart(day_start) == day_start

\* (day_start + timedelta(days=1)).replace(hour=day_start.hour, minute=day_start.minute)
NextDayStart(day_start) ==
    At(Date(day_start + Days(1)), Hour(day_start), Minute(day_start),
       Second(day_start + Days(1)), Microsecond(day_start + Days(1)))

\* the slot the iteration at the current cursor finds
SlotToday ==
    LET db   == _day_bounds(person, cursor)
        busy == BusyForDay(blocks, timeoffs, person.id, db.start, db.end)
        free == _subtract_intervals(<<db.start, db.end>>, busy)
    IN  FindSlot(free, Clamped, remaining)

\* lines 68-80: read the rows, compute remaining, cursor and end_horizon
Start(f, hw) ==
    /\ pc \in {"idle", "done"}
    /\ pc' = "loop"
    /\ from_dt' = f
    /\ remaining' = Max(0, wi.total_minutes - ScheduledMinutes(blocks, wi.id, person.id))
    /\ cursor' = _ceil_to_snap(f, WEEK_SNAP_MIN)
    /\ end_horizon' = _ceil_to_snap(f, WEEK_SNAP_MIN) + Weeks(hw)
    /\ created_ids' = <<>>
    /\ UNCHANGED <<result, tableVars, subVars, allocVars, extVars>>

\* lines 84-86: not a workday, go to 08:00 of the next calendar day
SkipNonWorkday ==
    /\ pc = "loop" /\ LoopCond
    /\ ~_is_workday(person, cursor)
    /\ cursor' = At(Date(At(Date(cursor), 0, 0, 0, 0) + Days(1)), 8, 0, 0, 0)
    /\ UNCHANGED <<pc, from_dt, end_horizon, remaining, created_ids, result, tableVars, subVars, allocVars, extVars>>

\* lines 88-94: at or past day_end (after the clamp to day_start)
PastDayEnd ==
    /\ pc = "loop" /\ LoopCond
    /\ _is_workday(person, cursor)
    /\ Clamped >= _day_bounds(person, cursor).end
    /\ cursor' = NextDayStart(_day_bounds(person, cursor).start)
    /\ UNCHANGED <<pc, from_dt, end_horizon, remaining, created_ids, result, tableVars, subVars, allocVars, extVars>>

\* lines 96-144: a free interval yields a block; it is added and committed
PlaceBlock ==
    /\ pc = "loop" /\ LoopCond
    /\ _is_workday(person, cursor)
    /\ Clamped < _day_bounds(person, cursor).end
    /\ SlotToday # <<>>
    /\ LET start     == SlotToday[1]
           block_min == SlotToday[2]
           new_block == Block(person.id, wi.id, start, start + Minutes(block_min), FALSE)
       IN  /\ blocks' = Append(blocks, new_block)
           /\ created_ids' = Append(created_ids, Len(blocks) + 1)
           /\ remaining' = remaining - block_min
           /\ cursor' = new_block.end
    /\ UNCHANGED <<pc, from_dt, end_horizon, result, person, wi, timeoffs, nSeed, subVars, allocVars, extVars>>

\* lines 96-128, 146-148: no free interval yields a block; go to the next day
NoSlotToday ==
    /\ pc = "loop" /\ LoopCond
    /\ _is_workday(person, cursor)
    /\ Clamped < _day_bounds(person, cursor).end
    /\ SlotToday = <<>>
    /\ cursor' = NextDayStart(_day_bounds(person, cursor).start)
    /\ UNCHANGED <<pc, from_dt, end_horizon, remaining, created_ids, result, tableVars, subVars, allocVars, extVars>>

\* line 150: the loop condition fails and the result is returned
Return ==
    /\ pc = "loop" /\ ~LoopCond
    /\ pc' = "done"
    /\ result' = [created_block_ids |-> created_ids, remaining_minutes |-> remaining]
    /\ UNCHANGED <<from_dt, cursor, end_horizon, remaining, created_ids, tableVars, subVars, allocVars, extVars>>

\* the tables a session reads
Tables(allocs, uas) == [allocations |-> allocs, unit_allocations |-> uas]

AllocIdle ==
    /\ allocations = <<>>
    /\ unit_allocations = <<>>
    /\ call = [op |-> "none", allow_over |-> FALSE, project_id |-> 0,
               flushed |-> FALSE, session |-> Tables(<<>>, <<>>)]
    /\ response = [status |-> 0]

SubIdle == base = <<0, 0>> /\ busyIn = <<>> /\ freeOut = <<>>

SnapIdle == snap_in = 0 /\ snap_out = <<0, 0>>

ViewIdle == adhoc_allocations = <<>> /\ grid = [view |-> "none"]

ConcIdle == runs = <<>>

ProbeIdle == probe = [op |-> "none"]

TxIdle == txs = <<>>

NothingDeleted == deleted = [people |-> {}, projects |-> {}, work_items |-> {}]

RestIdle == ProbeIdle /\ TxIdle /\ NothingDeleted

ExtIdle == SnapIdle /\ ViewIdle /\ ConcIdle /\ RestIdle

SchedInit ==
    /\ person \in Profiles
    /\ wi \in {[id |-> 1, total_minutes |-> t] : t \in TotalMinutes}
    /\ \E st \in SeedTables(1, 2) : blocks = st[1] /\ timeoffs = st[2] /\ nSeed = Len(st[1])
    /\ pc = "idle"
    /\ from_dt = 0 /\ cursor = 0 /\ end_horizon = 0 /\ remaining = 0
    /\ created_ids = <<>>
    /\ result = [created_block_ids |-> <<>>, remaining_minutes |-> 0]
    /\ SubIdle /\ AllocIdle /\ ExtIdle

SchedNext ==
    \/ \E f \in FromInstants, hw \in 0 .. MaxHorizonWeeks : Start(f, hw)
    \/ SkipNonWorkday
    \/ PastDayEnd
    \/ PlaceBlock
    \/ NoSlotToday
    \/ Return

SchedSpec == SchedInit /\ [][SchedNext]_vars


(***************************************************************************)
(* Properties of the scheduler.                                            *)
(***************************************************************************)

Overlap(x, y) == x.start < y.end /\ y.start < x.end

\* ids of the rows the runs created, and those of the current (or last) run
AutoIds == (nSeed + 1) .. Len(blocks)
ThisRunIds  == {created_ids[k] : k \in 1 .. Len(created_ids)}

RECURSIVE SumMinutes(_)
SumMinutes(ids) ==
    IF ids = {} THEN 0
    ELSE LET i == CHOOSE x \in ids : TRUE
         IN  (blocks[i].end - blocks[i].start) \div TicksPerMinute + SumMinutes(ids \ {i})

\* C1: every block a run creates lies within [dayStart, dayEnd) of a workday of
\* the person and overlaps no other block of the person (locked or not, of any
\* work item) and no time off of the person
C1_NoDoubleBooking ==
    \A i \in AutoIds :
        LET b  == blocks[i]
            db == _day_bounds(person, b.start)
        IN  /\ _is_workday(person, b.start)
            /\ db.start <= b.start /\ b.start < b.end /\ b.end <= db.end
            /\ \A j \in 1 .. Len(blocks) :
                   (j # i /\ blocks[j].person_id = b.person_id) => ~Overlap(b, blocks[j])
            /\ \A k \in 1 .. Len(timeoffs) :
                   timeoffs[k].person_id = b.person_id => ~Overlap(b, timeoffs[k])

\* a created block shares its day with an unlocked block of the person that
\* existed before the runs, in tables that also hold time off
C1_Witness ==
    /\ \E i \in AutoIds, j \in 1 .. nSeed :
           /\ blocks[j].person_id = person.id /\ blocks[j].locked = FALSE
           /\ Date(blocks[j].start) = Date(blocks[i].start)
    /\ Len(timeoffs) > 0

\* C2: the blocks of one run, in creation order, start strictly later one after
\* the other, do not overlap, and each lasts a whole number (>= 1) of hours
C2_MonotonicPlacement ==
    /\ \A k \in 1 .. Len(created_ids) :
           LET b == blocks[created_ids[k]]
           IN  /\ b.end - b.start >= Minutes(WEEK_SNAP_MIN)
               /\ (b.end - b.start) % Minutes(WEEK_SNAP_MIN) = 0
    /\ \A k \in 1 .. Len(created_ids) - 1 :
           LET b == blocks[created_ids[k]]
               c == blocks[created_ids[k + 1]]
           IN  b.start < c.start /\ b.end <= c.start
    /\ \A k, l \in 1 .. Len(created_ids) :
           k # l => ~Overlap(blocks[created_ids[k]], blocks[created_ids[l]])

\* a run created three blocks, two of them on one day
C2_Witness ==
    /\ Len(created_ids) >= 3
    /\ \E k \in 1 .. Len(created_ids) - 1 :
           Date(blocks[created_ids[k]].start) = Date(blocks[created_ids[k + 1]].start)

\* C3: when a run returns, remaining_minutes is max(0, total_minutes - minutes of
\* every block of the (work item, person) pair), earlier runs' blocks included
C3_Conservation ==
    pc = "done" =>
        result.remaining_minutes =
            Max(0, wi.total_minutes
                   - SumMinutes({i \in 1 .. Len(blocks) :
                                   /\ blocks[i].work_item_id = wi.id
                                   /\ blocks[i].person_id = person.id}))

\* a run returned having created blocks, after an earlier run created others,
\* with rows of another person and another work item in the table
C3_Witness ==
    /\ pc = "done"
    /\ Len(result.created_block_ids) > 0
    /\ Len(blocks) > nSeed + Len(result.created_block_ids)
    /\ \E j \in 1 .. nSeed : blocks[j].person_id # person.id
    /\ \E j \in 1 .. nSeed : blocks[j].person_id = person.id /\ blocks[j].work_item_id = wi.id

\* C7: a run terminates: an iteration runs only while the cursor is before the
\* horizon end and moves the cursor strictly forward, and at return either
\* nothing remains or the cursor reached the horizon end and the shortfall is
\* reported
C7_Terminates ==
    /\ [][(pc = "loop" /\ pc' = "loop") =>
             (cursor < end_horizon /\ cursor' > cursor)]_vars
    /\ [](pc = "done" =>
            /\ result.remaining_minutes = remaining
            /\ \/ remaining = 0
               \/ cursor >= end_horizon /\ remaining > 0)

\* a run over a whole horizon returned a shortfall for a person without workdays
C7_Witness ==
    /\ pc = "done"
    /\ person.work_days = {}
    /\ end_horizon > _ceil_to_snap(from_dt, WEEK_SNAP_MIN)
    /\ cursor >= end_horizon
    /\ result.remaining_minutes > 0

\* where a first block may go: a whole hour on a workday within the day bounds,
\* clear of the rows that existed before the run's first block
FirstSlotAt(t, first) ==
    LET db == _day_bounds(person, t)
        sl == [start |-> t, end |-> t + Minutes(WEEK_SNAP_MIN)]
    IN  /\ _is_workday(person, t)
        /\ db.start <= t /\ sl.end <= db.end
        /\ \A j \in 1 .. (first - 1) :
               blocks[j].person_id = person.id => ~Overlap(sl, blocks[j])
        /\ \A k \in 1 .. Len(timeoffs) :
               timeoffs[k].person_id = person.id => ~Overlap(sl, timeoffs[k])

\* C8: the first block of a run starts at the earliest whole hour t >= from_dt
\* at which a 60-minute slot is free for the person
C8_FirstBlockEarliest ==
    Len(created_ids) > 0 =>
        LET first == created_ids[1]
            t0    == blocks[first].start
            snap0 == _ceil_to_snap(from_dt, WEEK_SNAP_MIN)
        IN  /\ FirstSlotAt(t0, first)
            /\ \A n \in 0 .. ((t0 - snap0) \div TicksPerHour) :
                   (snap0 + n * TicksPerHour < t0) => ~FirstSlotAt(snap0 + n * TicksPerHour, first)

MaxInstant == 4
\* longest busy list drawn
MaxBusy == 2

\* bases, empty and inverted ones included
BaseIntervals == {<<s, e>> : s \in 0 .. 1, e \in 0 .. MaxInstant}

\* busy intervals [a, b), empty ones included
BusyIntervals == {<<a, b>> : a \in 0 .. MaxInstant, b \in 0 .. MaxInstant} \cap
                 {iv \in (0 .. MaxInstant) \X (0 .. MaxInstant) : iv[1] <= iv[2]}

SchedIdle ==
    /\ person = Profile(<<8, 0>>, <<17, 0>>, MonFri)
    /\ wi = [id |-> 1, total_minutes |-> 0]
    /\ blocks = <<>> /\ timeoffs = <<>> /\ nSeed = 0
    /\ pc = "idle"
    /\ from_dt = 0 /\ cursor = 0 /\ end_horizon = 0 /\ remaining = 0
    /\ created_ids = <<>>
    /\ result = [created_block_ids |-> <<>>, remaining_minutes |-> 0]

SubInit ==
    /\ base \in BaseIntervals
    /\ busyIn = <<>>
    /\ freeOut = _subtract_intervals(base, <<>>)
    /\ SchedIdle /\ AllocIdle /\ ExtIdle

\* one more busy interval is handed in and the function applied to the list
AddBusy(iv) ==
    /\ Len(busyIn) < MaxBusy
    /\ busyIn' = Append(busyIn, iv)
    /\ freeOut' = _subtract_intervals(base, Append(busyIn, iv))
    /\ UNCHANGED <<base, schedVars, allocVars, extVars>>

SubNext == \E iv \in BusyIntervals : AddBusy(iv)

SubSpec == SubInit /\ [][SubNext]_vars

\* the instants of [s, e) some busy interval covers
BusyCells == {t \in base[1] .. (base[2] - 1) :
                \E j \in 1 .. Len(busyIn) : busyIn[j][1] <= t /\ t < busyIn[j][2]}

RECURSIVE SumLengths(_)
SumLengths(ivs) ==
    IF ivs = <<>> THEN 0 ELSE (Head(ivs)[2] - Head(ivs)[1]) + SumLengths(Tail(ivs))

\* C4: the free intervals are non-empty, ascending, pairwise disjoint, inside the
\* base and clear of every busy interval, and together with the busy part of the
\* base they measure exactly e - s; an empty or inverted base yields none
C4_FreeBusyPartition ==
    LET s == base[1]
        e == base[2]
    IN  /\ s >= e => freeOut = <<>>
        /\ s < e =>
            /\ \A i \in 1 .. Len(freeOut) :
                   /\ freeOut[i][1] < freeOut[i][2]
                   /\ s <= freeOut[i][1] /\ freeOut[i][2] <= e
                   /\ \A t \in freeOut[i][1] .. (freeOut[i][2] - 1) : t \notin BusyCells
            /\ \A i \in 1 .. Len(freeOut) - 1 : freeOut[i][2] <= freeOut[i + 1][1]
            /\ SumLengths(freeOut) + Cardinality(BusyCells) = e - s

\* two busy intervals that overlap, the later one first, one reaching outside the
\* base, and free time left in the base
C4_Witness ==
    /\ Len(busyIn) = 2 /\ Len(freeOut) >= 1
    /\ busyIn[1][1] > busyIn[2][1] /\ busyIn[2][2] > busyIn[1][1]
    /\ \E j \in 1 .. 2 : busyIn[j][1] < base[1] \/ busyIn[j][2] > base[2]

(***************************************************************************)
(* Scope summary: main.py _project_totals, _workday_minutes,               *)
(* _planned_minutes_from_allocations, _planned_minutes_from_unit_allocations, *)
(* _project_scope_planned.                                                 *)
(***************************************************************************)

\* the company of the request (_get_active_company)
ActiveCompany == 1

\* Project rows by id: a unit-scoped project, a project in budget mode, a
\* project of another company, and a closed project
Projects ==
    [i \in 1 .. 4 |->
        CASE i = 1 -> [company_id |-> 1, budget_minutes |-> 0, status |-> "active"]
          [] i = 2 -> [company_id |-> 1, budget_minutes |-> 480, status |-> "active"]
          [] i = 3 -> [company_id |-> 2, budget_minutes |-> 0, status |-> "active"]
          [] i = 4 -> [company_id |-> 1, budget_minutes |-> 0, status |-> "closed"]]

\* WorkItem rows by id
WorkItems ==
    [i \in 1 .. 4 |->
        CASE i = 1 -> [project_id |-> 1, total_minutes |-> 400]
          [] i = 2 -> [project_id |-> 1, total_minutes |-> 200]
          [] i = 3 -> [project_id |-> 2, total_minutes |-> 100]
          [] i = 4 -> [project_id |-> 4, total_minutes |-> 300]]

\* Person rows by id: the default profile, a short day, a person of another
\* company, a day shorter than the break, and a person working weekends only
People ==
    [i \in 1 .. 5 |->
        CASE i = 1 -> [company_id |-> 1, work_start |-> <<8, 0>>, work_end |-> <<17, 0>>,
                       work_days |-> MonFri]
          [] i = 2 -> [company_id |-> 1, work_start |-> <<8, 0>>, work_end |-> <<12, 0>>,
                       work_days |-> {0, 2}]
          [] i = 3 -> [company_id |-> 2, work_start |-> <<8, 0>>, work_end |-> <<17, 0>>,
                       work_days |-> MonFri]
          [] i = 4 -> [company_id |-> 1, work_start |-> <<8, 0>>, work_end |-> <<8, 30>>,
                       work_days |-> MonFri]
          [] i = 5 -> [company_id |-> 1, work_start |-> <<8, 0>>, work_end |-> <<17, 0>>,
                       work_days |-> {5, 6}]]

\* _safe_hhmm(val, "08:00")
_safe_hhmm(val) ==
    IF 0 <= val[1] /\ val[1] <= 23 /\ 0 <= val[2] /\ val[2] <= 59 THEN val ELSE <<8, 0>>

\* _safe_workdays: the integers within 0..6, or Mon-Fri when none is left
_safe_workdays(val) ==
    IF val \cap (0 .. 6) = {} THEN MonFri ELSE val \cap (0 .. 6)

_workday_minutes(p) ==
    LET to_min(hhmm) == _safe_hhmm(hhmm)[1] * 60 + _safe_hhmm(hhmm)[2]
        raw          == Max(0, to_min(p.work_end) - to_min(p.work_start))
    IN  Max(0, raw - 60)

\* The rows of Person, Project and WorkItem that session.get and select still
\* find: the rows listed above less the deleted ones.
PersonIds   == DOMAIN People \ deleted.people
ProjectIds  == DOMAIN Projects \ deleted.projects
WorkItemIds == DOMAIN WorkItems \ deleted.work_items

_project_totals(project_id) ==
    IF project_id \in ProjectIds /\ Projects[project_id].budget_minutes > 0
    THEN Projects[project_id].budget_minutes
    ELSE LET RECURSIVE Sum(_)
             Sum(ids) == IF ids = {} THEN 0
                         ELSE LET i == CHOOSE x \in ids : TRUE
                              IN  WorkItems[i].total_minutes + Sum(ids \ {i})
         IN  Sum({i \in WorkItemIds : WorkItems[i].project_id = project_id})

\* the (day_min, percent) magnitudes, among day lengths of 0, 180 and 480 minutes
\* and percentages up to 200, whose product is a whole number of minutes while
\* the double product falls just below it (180 * (35 / 100.0) is 62.99999999999999)
DoubleBelowWhole == {<<180, 35>>, <<180, 70>>, <<180, 115>>, <<180, 140>>}

\* int(day_min * (percent / 100.0)): the double product truncated towards zero
PercentOfDay(day_min, percent) ==
    LET n     == day_min * percent
        mag   == IF n >= 0 THEN n ELSE -n
        short == IF <<day_min, IF percent >= 0 THEN percent ELSE -percent>> \in DoubleBelowWhole
                 THEN 1 ELSE 0
        whole == (mag \div 100) - short
    IN  IF n >= 0 THEN whole ELSE -whole

\* the inner while loop: the workdays of cur .. end_date, each adding its share
RECURSIVE PlannedDays(_, _, _, _)
PlannedDays(cur, end_date, allowed, share) ==
    IF cur > end_date THEN 0
    ELSE (IF cur % 7 \in allowed THEN share ELSE 0)
         + PlannedDays(cur + 1, end_date, allowed, share)

RECURSIVE _planned_minutes_from_allocations(_, _, _)
_planned_minutes_from_allocations(allocs, company_id, project_id) ==
    IF allocs = <<>> THEN 0
    ELSE LET a == Head(allocs)
         IN  (IF /\ a.company_id = company_id /\ a.project_id = project_id
                 /\ a.person_id \in PersonIds
                 /\ People[a.person_id].company_id = company_id
              THEN PlannedDays(a.start_date, a.end_date,
                               _safe_workdays(People[a.person_id].work_days),
                               PercentOfDay(_workday_minutes(People[a.person_id]), a.percent))
              ELSE 0)
             + _planned_minutes_from_allocations(Tail(allocs), company_id, project_id)

RECURSIVE _planned_minutes_from_unit_allocations(_, _)
_planned_minutes_from_unit_allocations(uas, project_id) ==
    IF uas = <<>> THEN 0
    ELSE (IF Head(uas).project_id = project_id THEN Head(uas).minutes ELSE 0)
         + _planned_minutes_from_unit_allocations(Tail(uas), project_id)

_project_scope_planned(t, company_id, project_id) ==
    LET scope         == _project_totals(project_id)
        planned_pct   == _planned_minutes_from_allocations(t.allocations, company_id, project_id)
        planned_units == _planned_minutes_from_unit_allocations(t.unit_allocations, project_id)
        planned       == planned_pct + planned_units
    IN  [scope |-> scope, planned |-> planned, planned_pct |-> planned_pct,
         planned_units |-> planned_units, over |-> Max(0, planned - scope)]

\* _week_start, _week_bucket
_week_start(d)  == d - (d % 7)
\* A five-day range that starts on the date itself and not on its Monday.
WeekBucketFromDate(d) == <<d, d + 4>>

_week_bucket(d) == <<_week_start(d), _week_start(d) + 4>>

(***************************************************************************)
(* The allocation write paths: api_alloc_create, api_alloc_update,         *)
(* api_unit_alloc_create, api_unit_alloc_update.                           *)
(***************************************************************************)

\* most rows the two tables hold together
MaxRows == 2

Committed == Tables(allocations, unit_allocations)

\* the totals are computed before the write reaches the session
ViewBeforeFlush(flushed, committed) == committed

\* session.add(row); session.flush(); totals = _project_scope_planned(session, ...):
\* the session reads its own flushed rows
ViewAfterFlush(flushed, committed) == flushed

\* the flushed rows stay
RollbackKeepsFlushed(flushed, committed) == flushed

\* session.rollback(): the flushed rows are gone, the committed ones remain
AfterRollback(flushed, committed) == committed

Totals(flushed, project_id) ==
    _project_scope_planned(ViewAfterFlush(flushed, Committed), ActiveCompany, project_id)

\* JSONResponse(status_code=409, content={"error": "scope_exceeded", "project_id": .., **totals})
ScopeExceeded(project_id, totals) ==
    [status |-> 409, error |-> "scope_exceeded", project_id |-> project_id,
     scope |-> totals.scope, planned |-> totals.planned, planned_pct |-> totals.planned_pct,
     planned_units |-> totals.planned_units, over |-> totals.over]

\* raise HTTPException(code, detail): nothing was flushed, the session is dropped
Raise(op, allow_over, project_id, code, detail) ==
    /\ response' = [status |-> code, detail |-> detail]
    /\ call' = [op |-> op, allow_over |-> allow_over, project_id |-> project_id,
                flushed |-> FALSE, session |-> Committed]
    /\ UNCHANGED <<allocations, unit_allocations>>

\* the tail of the four handlers: totals on the flushed session, then
\* rollback and 409, or commit and the handler's own body
CommitOrRollback(op, allow_over, project_id, flushed, ok_body) ==
    LET totals == Totals(flushed, project_id)
    IN  /\ call' = [op |-> op, allow_over |-> allow_over, project_id |-> project_id,
                    flushed |-> TRUE, session |-> flushed]
        /\ IF totals.planned > totals.scope /\ ~allow_over
           THEN /\ allocations' = AfterRollback(flushed, Committed).allocations
                /\ unit_allocations' = AfterRollback(flushed, Committed).unit_allocations
                /\ response' = ScopeExceeded(project_id, totals)
           ELSE /\ allocations' = flushed.allocations
                /\ unit_allocations' = flushed.unit_allocations
                /\ response' = ok_body

RowCount == Len(allocations) + Len(unit_allocations)

\* POST /api/allocations
api_alloc_create(data) ==
    /\ RowCount < MaxRows
    /\ LET allow_over == data.allow_over
           project_id == data.project_id
       IN  IF project_id \notin ProjectIds
              \/ Projects[project_id].company_id # ActiveCompany
           THEN Raise("api_alloc_create", allow_over, project_id, 404, "Project not found")
           ELSE LET alloc == [company_id |-> ActiveCompany, project_id |-> project_id,
                              person_id |-> data.person_id, start_date |-> data.start_date,
                              end_date |-> data.end_date, percent |-> data.percent]
                    flushed == Tables(Append(allocations, alloc), unit_allocations)
                IN  CommitOrRollback("api_alloc_create", allow_over, project_id, flushed,
                                     [status |-> 200, ok |-> TRUE,
                                      id |-> Len(flushed.allocations)])
    /\ UNCHANGED <<subVars, schedVars, extVars>>

\* PUT /api/allocations/{alloc_id}: only the keys present in data are written
api_alloc_update(alloc_id, data) ==
    /\ LET allow_over == IF "allow_over" \in DOMAIN data THEN data.allow_over ELSE FALSE
       IN  IF alloc_id \notin 1 .. Len(allocations)
           THEN Raise("api_alloc_update", allow_over, 0, 404, "Allocation not found")
           ELSE LET old == allocations[alloc_id]
                IN  IF old.project_id \notin ProjectIds
                       \/ Projects[old.project_id].company_id # ActiveCompany
                    THEN Raise("api_alloc_update", allow_over, old.project_id, 404,
                               "Project not found")
                    ELSE LET new == [old EXCEPT
                                  !.person_id  = IF "person_id" \in DOMAIN data
                                                 THEN data.person_id ELSE @,
                                  !.start_date = IF "start_date" \in DOMAIN data
                                                 THEN data.start_date ELSE @,
                                  !.end_date   = IF "end_date" \in DOMAIN data
                                                 THEN data.end_date ELSE @,
                                  !.percent    = IF "percent" \in DOMAIN data
                                                 THEN data.percent ELSE @]
                             flushed == Tables([allocations EXCEPT ![alloc_id] = new],
                                               unit_allocations)
                         IN  CommitOrRollback("api_alloc_update", allow_over, old.project_id,
                                              flushed, [status |-> 200, ok |-> TRUE])
    /\ UNCHANGED <<subVars, schedVars, extVars>>

\* POST /api/unit_allocations (minutes given as such)
api_unit_alloc_create(data) ==
    /\ RowCount < MaxRows
    /\ LET allow_over == data.allow_over
           project_id == data.project_id
           op         == "api_unit_alloc_create"
       IN  IF project_id \notin ProjectIds
              \/ Projects[project_id].company_id # ActiveCompany
           THEN Raise(op, allow_over, project_id, 404, "Project not found")
           ELSE IF Projects[project_id].budget_minutes > 0
           THEN Raise(op, allow_over, project_id, 400, "budget mode")
           ELSE IF data.work_item_id \notin WorkItemIds
                   \/ WorkItems[data.work_item_id].project_id # project_id
           THEN Raise(op, allow_over, project_id, 404, "WorkItem not found")
           ELSE IF data.person_id \notin PersonIds
                   \/ People[data.person_id].company_id # ActiveCompany
           THEN Raise(op, allow_over, project_id, 404, "Person not found")
           ELSE IF data.minutes <= 0
           THEN Raise(op, allow_over, project_id, 400, "Missing or invalid minutes")
           ELSE LET bucket == _week_bucket(data.start_date)
                    ua == [project_id |-> project_id, work_item_id |-> data.work_item_id,
                           person_id |-> data.person_id, start_date |-> bucket[1],
                           end_date |-> bucket[2], minutes |-> data.minutes]
                    flushed == Tables(allocations, Append(unit_allocations, ua))
                IN  CommitOrRollback(op, allow_over, project_id, flushed,
                                     [status |-> 200, ok |-> TRUE,
                                      id |-> Len(flushed.unit_allocations)])
    /\ UNCHANGED <<subVars, schedVars, extVars>>

\* PUT /api/unit_allocations/{ua_id}: only the keys present in data are written
api_unit_alloc_update(ua_id, data) ==
    /\ LET allow_over == IF "allow_over" \in DOMAIN data THEN data.allow_over ELSE FALSE
           op         == "api_unit_alloc_update"
       IN  IF ua_id \notin 1 .. Len(unit_allocations)
           THEN Raise(op, allow_over, 0, 404, "Not found")
           ELSE LET old == unit_allocations[ua_id]
                    base_d == IF "start_date" \in DOMAIN data THEN data.start_date
                              ELSE IF "end_date" \in DOMAIN data THEN data.end_date
                              ELSE old.start_date
                    bucket == _week_bucket(base_d)
                    new == [old EXCEPT
                              !.start_date = bucket[1],
                              !.end_date   = bucket[2],
                              !.minutes    = IF "minutes" \in DOMAIN data
                                             THEN data.minutes ELSE @,
                              !.person_id  = IF "person_id" \in DOMAIN data
                                             THEN data.person_id ELSE @]
                    flushed == Tables(allocations, [unit_allocations EXCEPT ![ua_id] = new])
                IN  IF old.project_id \notin ProjectIds
                       \/ Projects[old.project_id].company_id # ActiveCompany
                    THEN Raise(op, allow_over, old.project_id, 403, "Forbidden")
                    ELSE IF Projects[old.project_id].budget_minutes > 0
                    THEN Raise(op, allow_over, old.project_id, 400, "budget mode")
                    ELSE IF "person_id" \in DOMAIN data
                            /\ (\/ data.person_id \notin PersonIds
                                \/ People[data.person_id].company_id # ActiveCompany)
                    THEN Raise(op, allow_over, old.project_id, 404, "Person not found")
                    ELSE CommitOrRollback(op, allow_over, old.project_id, flushed,
                                          [status |-> 200, ok |-> TRUE])
    /\ UNCHANGED <<subVars, schedVars, extVars>>

\* ---- the requests drawn

AllocReq(project_id, person_id, end_date, percent, allow_over) ==
    [project_id |-> project_id, person_id |-> person_id, start_date |-> 0,
     end_date |-> end_date, percent |-> percent, allow_over |-> allow_over]

AllocCreateData ==
    { AllocReq(1, 1, 0, 100, FALSE),    \* 480 of 600
      AllocReq(1, 1, 0, 100, TRUE),
      AllocReq(2, 1, 1, 100, FALSE),    \* 960 of 480
      AllocReq(2, 2, 0, 50, TRUE),      \* 90 of 480
      AllocReq(3, 1, 0, 100, FALSE),    \* another company's project
      AllocReq(1, 3, 0, 25, FALSE),     \* another company's person
      [AllocReq(1, 2, 0, 50, FALSE) EXCEPT !.start_date = 3],    \* ends before it starts
      AllocReq(1, 1, 0, 120, FALSE) }   \* 576 of 600, more than the whole day

AllocUpdateData ==
    { [end_date |-> 1],
      [percent |-> 50],
      [person_id |-> 2, allow_over |-> TRUE] }

UnitReq(project_id, work_item_id, person_id, minutes, allow_over) ==
    [project_id |-> project_id, work_item_id |-> work_item_id, person_id |-> person_id,
     start_date |-> 2, end_date |-> 2, minutes |-> minutes, allow_over |-> allow_over]

UnitCreateData ==
    { UnitReq(1, 1, 1, 500, FALSE),
      UnitReq(1, 1, 1, 200, FALSE),
      UnitReq(1, 1, 1, 200, TRUE),
      UnitReq(1, 1, 1, 0, FALSE),       \* invalid minutes
      UnitReq(1, 1, 3, 200, FALSE),     \* another company's person
      UnitReq(1, 3, 1, 200, FALSE),     \* another project's work item
      UnitReq(2, 3, 1, 200, FALSE),     \* budget mode
      [UnitReq(1, 2, 1, 100, FALSE) EXCEPT !.start_date = 12] }   \* asked for a Saturday

UnitUpdateData ==
    { [minutes |-> 700, allow_over |-> TRUE],
      [minutes |-> 500],
      [start_date |-> 9],
      [end_date |-> 20],                \* no start date: the end date picks the week
      [minutes |-> 0],                  \* nothing left of the row
      [person_id |-> 3, minutes |-> 200] }

AllocInit == SubIdle /\ SchedIdle /\ AllocIdle /\ ExtIdle

AllocNext ==
    \/ \E d \in AllocCreateData : api_alloc_create(d)
    \/ \E id \in 1 .. MaxRows, d \in AllocUpdateData : api_alloc_update(id, d)
    \/ \E d \in UnitCreateData : api_unit_alloc_create(d)
    \/ \E id \in 1 .. MaxRows, d \in UnitUpdateData : api_unit_alloc_update(id, d)

AllocSpec == AllocInit /\ [][AllocNext]_vars


(***************************************************************************)
(* Properties of the allocation write paths.                               *)
(***************************************************************************)

CommittedNext == Tables(allocations', unit_allocations')

Planned(t, project_id) == _project_scope_planned(t, ActiveCompany, project_id).planned

\* C5: a create or update of a PercentAllocation or MinuteAllocation without
\* the override flag whose flushed write makes the project's planned minutes
\* exceed its scope is answered 409 scope_exceeded carrying scope, planned and
\* over, and both tables are afterwards exactly what they were before the call.
C5_ScopeExceededRolledBack ==
    [][(/\ call'.flushed
        /\ ~call'.allow_over
        /\ Planned(call'.session, call'.project_id) > _project_totals(call'.project_id))
       => (/\ response'.status = 409
           /\ response'.error = "scope_exceeded"
           /\ response'.scope = _project_totals(call'.project_id)
           /\ response'.planned = Planned(call'.session, call'.project_id)
           /\ response'.over = response'.planned - response'.scope
           /\ allocations' = allocations
           /\ unit_allocations' = unit_allocations)]_vars

\* C5 witness: scope 600, a committed unit allocation of 500 minutes, and a
\* rejected request for 200 more: 409 with scope 600, planned 700, over 100,
\* the table still holding the one row.
C5_Witness ==
    /\ response.status = 409
    /\ call.op = "api_unit_alloc_create"
    /\ response.scope = 600 /\ response.planned = 700 /\ response.over = 100
    /\ Len(unit_allocations) = 1
    /\ unit_allocations[1].minutes = 500
    /\ Len(call.session.unit_allocations) = 2

\* C6: a create or update without the override flag never takes a project from
\* planned <= scope to planned > scope, the planned minutes being those of the
\* committed tables after the call.
C6_NoOvercommitWithoutOverride ==
    [][~call'.allow_over
       => \A p \in DOMAIN Projects :
            Planned(Committed, p) <= _project_totals(p)
                => Planned(CommittedNext, p) <= _project_totals(p)]_vars

\* C6 witness: a project with committed rows within scope, and a request
\* without override whose flushed write went over scope and was refused.
C6_Witness ==
    /\ call.flushed /\ ~call.allow_over
    /\ response.status = 409
    /\ Planned(Committed, call.project_id) > 0
    /\ Planned(Committed, call.project_id) <= _project_totals(call.project_id)
    /\ Planned(call.session, call.project_id) > _project_totals(call.project_id)

\* C10: a create or update with the override flag that makes planned > scope is
\* persisted and its response carries the over amount as a warning.
C10_OverrideCarriesOver ==
    (/\ call.flushed
     /\ call.allow_over
     /\ Planned(call.session, call.project_id) > _project_totals(call.project_id))
    => (/\ Committed = call.session
        /\ response.status = 200
        /\ "over" \in DOMAIN response
        /\ response.over = Planned(Committed, call.project_id)
                               - _project_totals(call.project_id))

(***************************************************************************)
(* _ceil_to_snap on its own, over instants around hour and day boundaries. *)
(***************************************************************************)

Sun == 6

\* the instants drawn: on and off the grid, with and without seconds and
\* sub-second parts, early, mid-day and in the last hour of a day and of a week
SnapInstants ==
    {At(d, h, m, sec, us) : d \in {Mon, Sun}, h \in {0, 8, 23}, m \in {0, 1, 30, 59},
                            sec \in {0, 1, 59}, us \in 0 .. (MicrosPerSecond - 1)}

\* cursor = _ceil_to_snap(from_dt, WEEK_SNAP_MIN); start = _ceil_to_snap(start, WEEK_SNAP_MIN):
\* the function applied to an instant, and again to its own result
Snap(t) ==
    /\ snap_in' = t
    /\ snap_out' = <<_ceil_to_snap(t, WEEK_SNAP_MIN),
                     _ceil_to_snap(_ceil_to_snap(t, WEEK_SNAP_MIN), WEEK_SNAP_MIN)>>
    /\ UNCHANGED <<subVars, schedVars, allocVars, viewVars, concVars, restVars>>

SnapInit == SubIdle /\ SchedIdle /\ AllocIdle /\ ExtIdle

SnapNext == \E t \in SnapInstants : Snap(t)

SnapSpec == SnapInit /\ [][SnapNext]_vars

\* C15: _ceil_to_snap(t, 60) is the smallest instant >= t that is a whole number
\* of hours from midnight with zero seconds and sub-second part: it is on the
\* grid, t <= snap(t), and snap(t) < t + 60 min
C15_CeilIsLeastGridInstant ==
    /\ snap_out[1] % (WEEK_SNAP_MIN * TicksPerMinute) = 0
    /\ snap_in <= snap_out[1]
    /\ snap_out[1] < snap_in + WEEK_SNAP_MIN * TicksPerMinute

\* an instant with minute 0 and seconds past the hour goes to the next hour,
\* here across midnight
C15_Witness ==
    /\ Minute(snap_in) = 0 /\ Second(snap_in) > 0
    /\ snap_out[1] > snap_in
    /\ Date(snap_out[1]) = Date(snap_in) + 1

\* C16: snapping is idempotent: _ceil_to_snap(_ceil_to_snap(t, 60), 60) =
\* _ceil_to_snap(t, 60)
C16_SnapIdempotent == snap_out[2] = snap_out[1]

\* an instant off the grid was moved, and snapping the result moved nothing
C16_Witness ==
    /\ snap_in % TicksPerHour # 0
    /\ Microsecond(snap_in) > 0
    /\ snap_out[1] > snap_in
    /\ snap_out[2] = snap_out[1]

(***************************************************************************)
(* Capacity: main.py _periods, _timeoff_overlaps, _is_workday,             *)
(* _capacity_hours_in_range.                                               *)
(***************************************************************************)

\* _periods(view, ref) for the day view (the five days Mon-Fri of ref's week)
\* and the week view (five work-weeks from ref's week on)
_periods(view, ref) ==
    LET ws == _week_start(ref)
    IN  IF view = "day"
        THEN [i \in 1 .. 5 |-> [start |-> ws + (i - 1), end |-> ws + (i - 1)]]
        ELSE [i \in 1 .. 5 |-> [start |-> ws + 7 * (i - 1), end |-> ws + 7 * (i - 1) + 4]]

\* the TimeOff rows of the person with end > start 00:00 and start < (end + 1 day) 00:00
_timeoff_overlaps(offs, person_id, start, end) ==
    SelectSeq(offs, LAMBDA o : /\ o.person_id = person_id
                               /\ o.end > Days(start)
                               /\ o.start < Days(end + 1))

\* the dates from o.start.date() to (o.end - timedelta(seconds=1)).date()
OffDatesOf(o) == Date(o.start) .. Date(o.end - MicrosPerSecond)

\* main.py _is_workday: the weekday of the date is in _safe_workdays(work_days)
_is_workday_of_date(p, d0) == (d0 % 7) \in _safe_workdays(p.work_days)

\* _capacity_hours_in_range, the hours carried as minutes (hrs_day is
\* _workday_minutes / 60.0 and the callers take int(round(cap_h * 60)))
_capacity_hours_in_range(offs, person_id, start, end) ==
    LET sel       == _timeoff_overlaps(offs, person_id, start, end)
        off_dates == UNION {OffDatesOf(sel[k]) : k \in 1 .. Len(sel)}
    IN  Cardinality({cur \in start .. end :
                       /\ _is_workday_of_date(People[person_id], cur)
                       /\ cur \notin off_dates})
            * _workday_minutes(People[person_id])

(***************************************************************************)
(* The utilization grids: portfolio_view and report_view.                  *)
(***************************************************************************)

\* Python round() of the quotient n / d, d > 0: to the nearest integer, a tie
\* to the even one (the quotients the model draws are no ties of the
\* percentage, where the double quotient decides)
RoundHalfEven(n, d) ==
    LET q == n \div d
        r == n % d
    IN  IF 2 * r < d THEN q
        ELSE IF 2 * r > d THEN q + 1
        ELSE IF q % 2 = 0 THEN q ELSE q + 1

RECURSIVE SumInts(_)
SumInts(xs) == IF xs = <<>> THEN 0 ELSE Head(xs) + SumInts(Tail(xs))

_overlap_days(a_start, a_end, b_start, b_end) ==
    LET lo == Max(a_start, b_start)
        hi == Min(a_end, b_end)
    IN  IF hi < lo THEN 0 ELSE (hi - lo) + 1

\* the rows of the company's people, and of its active projects
CompanyPeople == {i \in DOMAIN People : People[i].company_id = ActiveCompany}
ActiveProjectIds ==
    {i \in DOMAIN Projects : /\ Projects[i].company_id = ActiveCompany
                             /\ Projects[i].status = "active"}

\* the first start and the last end of the periods
_date_range_start_end(periods) == <<periods[1].start, periods[Len(periods)].end>>

\* _allocations_in_range, then the rows of active projects only
AllocsInView(allocs, start, end) ==
    SelectSeq(allocs, LAMBDA a : /\ a.company_id = ActiveCompany
                                 /\ a.end_date >= start /\ a.start_date <= end
                                 /\ a.project_id \in ActiveProjectIds)

\* the company's AdhocAllocation rows meeting the range
AdhocInView(adhoc, start, end) ==
    SelectSeq(adhoc, LAMBDA a : /\ a.company_id = ActiveCompany
                                /\ a.end_date >= start /\ a.start_date <= end)

\* the rows of a list that meet the period and belong to the person
CellRows(rows, person_id, per) ==
    SelectSeq(rows, LAMBDA a : /\ ~(a.end_date < per.start \/ a.start_date > per.end)
                               /\ a.person_id = person_id)

SumPercent(rows) == SumInts([k \in 1 .. Len(rows) |-> rows[k].percent])

\* int(round(mpd * od)) with mpd = ua_min / float(days_total); 0 for a row
\* that is skipped (no minutes, no days, no overlap)
MinutesHere(ua, per) ==
    LET days_total == (ua.end_date - ua.start_date) + 1
        od         == _overlap_days(ua.start_date, ua.end_date, per.start, per.end)
    IN  IF ua.minutes <= 0 \/ days_total <= 0 \/ od <= 0 THEN 0
        ELSE RoundHalfEven(ua.minutes * od, days_total)

\* portfolio_view's unit_allocs query
UnitsInPortfolio(uas, person_ids, start, end) ==
    SelectSeq(uas, LAMBDA ua : /\ ua.person_id \in person_ids
                               /\ ua.project_id \in ActiveProjectIds
                               /\ ua.end_date >= start /\ ua.start_date <= end)

\* cell_unit_minutes: the shares above 0 of the person's rows in the period
cell_unit_minutes(uas, person_id, per) ==
    LET mine == SelectSeq(uas, LAMBDA ua : ua.person_id = person_id)
    IN  SumInts([k \in 1 .. Len(mine) |-> Max(0, MinutesHere(mine[k], per))])

\* the percentage without the guard on the capacity
UnitPercentUnguarded(um, cm) == RoundHalfEven(um * 100, Max(1, cm))

\* unit minutes -> percent: int(round((um / float(cm)) * 100.0)) if cm > 0 and um > 0
UnitPercent(um, cm) ==
    IF cm > 0 /\ um > 0 THEN RoundHalfEven(um * 100, cm) ELSE 0

\* cap_min of a cell: int(round(cap_h * 60))
CapMin(pe, per) == _capacity_hours_in_range(timeoffs, pe, per.start, per.end)

\* GET /: the capacity, the unit minutes and the summed percentage of every
\* cell (person, period), with the scope summaries of the active projects;
\* selected_person_id 0 is no person filter
portfolio_view(view, ref, selected_person_id) ==
    LET periods  == _periods(view, _week_start(ref))
        range    == _date_range_start_end(periods)
        people   == IF selected_person_id # 0
                    THEN {i \in CompanyPeople : i = selected_person_id}
                    ELSE CompanyPeople
        t        == Tables(allocations, unit_allocations)
        allocs   == AllocsInView(allocations, range[1], range[2])
        adhoc    == AdhocInView(adhoc_allocations, range[1], range[2])
        units    == UnitsInPortfolio(unit_allocations, people, range[1], range[2])
    IN  /\ grid' = [view        |-> "portfolio",
                    periods     |-> periods,
                    people      |-> people,
                    proj_totals |-> [i \in ActiveProjectIds |->
                                       _project_scope_planned(t, ActiveCompany, i)],
                    cap_min     |-> [pe \in people, pi \in 1 .. Len(periods) |->
                                       CapMin(pe, periods[pi])],
                    unit_minutes |-> [pe \in people, pi \in 1 .. Len(periods) |->
                                       cell_unit_minutes(units, pe, periods[pi])],
                    cell_sum    |-> [pe \in people, pi \in 1 .. Len(periods) |->
                                       SumPercent(CellRows(allocs, pe, periods[pi]))
                                       + SumPercent(CellRows(adhoc, pe, periods[pi]))
                                       + UnitPercent(cell_unit_minutes(units, pe, periods[pi]),
                                                     CapMin(pe, periods[pi]))]]
        /\ UNCHANGED <<subVars, schedVars, allocVars, snapVars, adhoc_allocations, concVars,
                       restVars>>

\* the number of week columns of the report
ReportWeeks == 30

\* int(round(cm * (a.percent / 100.0))) for the rows of a cell, none if cm <= 0
ReportPercentMinutes(rows, cm) ==
    IF cm <= 0 THEN 0
    ELSE SumInts([k \in 1 .. Len(rows) |-> RoundHalfEven(cm * rows[k].percent, 100)])

\* the planned minutes of a report cell: percentages of the capacity, then
\* the shares of the unit allocations
ReportCell(allocs, adhoc, units, pe, per) ==
    LET cm   == CapMin(pe, per)
        mine == SelectSeq(units, LAMBDA ua : ua.person_id = pe)
    IN  ReportPercentMinutes(CellRows(allocs, pe, per), cm)
        + ReportPercentMinutes(CellRows(adhoc, pe, per), cm)
        + SumInts([k \in 1 .. Len(mine) |-> MinutesHere(mine[k], per)])

\* pct = int(round((pm / float(cm)) * 100.0)) if cm > 0 else 0
ReportPct(pm, cm) == IF cm > 0 THEN RoundHalfEven(pm * 100, cm) ELSE 0

\* GET /report: planned minutes over capacity per person and week
report_view(ref) ==
    LET ref_d   == _week_start(ref)
        periods == [i \in 1 .. ReportWeeks |->
                      [start |-> ref_d + 7 * (i - 1), end |-> ref_d + 7 * (i - 1) + 4]]
        start   == periods[1].start
        end     == periods[Len(periods)].end
        people  == CompanyPeople
        allocs  == AllocsInView(allocations, start, end)
        adhoc   == AdhocInView(adhoc_allocations, start, end)
        units   == SelectSeq(unit_allocations,
                             LAMBDA ua : /\ ua.project_id \in ActiveProjectIds
                                         /\ ua.end_date >= start /\ ua.start_date <= end)
    IN  /\ grid' = [view    |-> "report",
                    periods |-> periods,
                    people  |-> people,
                    cap_min |-> [pe \in people, pi \in 1 .. Len(periods) |->
                                   CapMin(pe, periods[pi])],
                    minutes |-> [pe \in people, pi \in 1 .. Len(periods) |->
                                   ReportCell(allocs, adhoc, units, pe, periods[pi])],
                    pct     |-> [pe \in people, pi \in 1 .. Len(periods) |->
                                   ReportPct(ReportCell(allocs, adhoc, units, pe, periods[pi]),
                                             CapMin(pe, periods[pi]))]]
        /\ UNCHANGED <<subVars, schedVars, allocVars, snapVars, adhoc_allocations, concVars,
                       restVars>>

\* rows as the write paths store them
AllocRow(project_id, person_id, start_date, end_date, percent) ==
    [company_id |-> ActiveCompany, project_id |-> project_id, person_id |-> person_id,
     start_date |-> start_date, end_date |-> end_date, percent |-> percent]

AdhocRow(person_id, start_date, end_date, percent) ==
    [company_id |-> ActiveCompany, person_id |-> person_id,
     start_date |-> start_date, end_date |-> end_date, percent |-> percent]

UnitRow(project_id, work_item_id, person_id, week, minutes) ==
    [project_id |-> project_id, work_item_id |-> work_item_id, person_id |-> person_id,
     start_date |-> _week_bucket(week)[1], end_date |-> _week_bucket(week)[2],
     minutes |-> minutes]

\* Allocation tables: none; a third of a long day with 35 % of a short one;
\* people without capacity, a closed project and a person of another company
AllocTables ==
    { <<>>,
      <<AllocRow(1, 1, 0, 4, 33), AllocRow(2, 2, 0, 9, 35)>>,
      <<AllocRow(1, 4, 0, 4, 50), AllocRow(1, 5, 0, 4, 100),
        AllocRow(4, 1, 0, 4, 50), AllocRow(1, 3, 0, 4, 100)>> }

\* UnitAllocation tables, each row in the Monday-Friday bucket of its week
UnitTables ==
    { <<>>,
      <<UnitRow(1, 1, 1, 0, 37)>>,
      <<UnitRow(1, 1, 1, 0, 600), UnitRow(1, 2, 1, 0, 120), UnitRow(1, 2, 2, 0, 13),
        UnitRow(1, 1, 4, 0, 300), UnitRow(1, 1, 5, 1, 300), UnitRow(4, 4, 1, 0, 300)>> }

AdhocTables ==
    { <<>>,
      <<AdhocRow(4, 0, 4, 60), AdhocRow(1, 1, 8, 80)>> }

\* TimeOff tables: none; an afternoon; an absence ending half a second into
\* Tuesday; a whole week
OffTables ==
    { <<>>,
      <<Off(1, At(Tue, 12, 0, 0, 0), At(Tue, 15, 0, 0, 0))>>,
      <<Off(1, At(Mon, 9, 0, 0, 0), At(Tue, 0, 0, 0, 1))>>,
      <<Off(1, At(Mon, 0, 0, 0, 0), At(Sat, 0, 0, 0, 0))>> }

GridInit ==
    /\ SubIdle /\ SnapIdle /\ ConcIdle /\ RestIdle
    /\ person = Profile(<<8, 0>>, <<17, 0>>, MonFri)
    /\ wi = [id |-> 1, total_minutes |-> 0]
    /\ blocks = <<>> /\ nSeed = 0
    /\ pc = "idle"
    /\ from_dt = 0 /\ cursor = 0 /\ end_horizon = 0 /\ remaining = 0
    /\ created_ids = <<>>
    /\ result = [created_block_ids |-> <<>>, remaining_minutes |-> 0]
    /\ timeoffs \in OffTables
    /\ allocations \in AllocTables
    /\ unit_allocations \in UnitTables
    /\ adhoc_allocations \in AdhocTables
    /\ call = [op |-> "none", allow_over |-> FALSE, project_id |-> 0,
               flushed |-> FALSE, session |-> Tables(<<>>, <<>>)]
    /\ response = [status |-> 0]
    /\ grid = [view |-> "none"]

GridNext ==
    \/ \E view \in {"day", "week"}, ref \in {0, 9}, selected_person_id \in {0, 1} :
           portfolio_view(view, ref, selected_person_id)
    \/ \E ref \in {2} : report_view(ref)

GridSpec == GridInit /\ [][GridNext]_vars

(***************************************************************************)
(* Properties of the capacity and utilization grids.                       *)
(***************************************************************************)

GridShown == grid.view \in {"portfolio", "report"}
Cells == {<<pe, pi>> : pe \in grid.people, pi \in 1 .. Len(grid.periods)}

\* the date is touched, for however short a time, by a TimeOff of the person
DayTouched(pe, d) ==
    \E k \in 1 .. Len(timeoffs) :
        /\ timeoffs[k].person_id = pe
        /\ timeoffs[k].start < Days(d + 1)
        /\ timeoffs[k].end > Days(d)

\* (dayEnd - dayStart) - 60 minutes, never below 0
DailyCapacity(pe) ==
    Max(0, (People[pe].work_end[1] * 60 + People[pe].work_end[2])
           - (People[pe].work_start[1] * 60 + People[pe].work_start[2]) - 60)

\* C13: the capacity minutes of a person over a period are the number of dates
\* of the period on a weekday of the person's workday set that no TimeOff of
\* the person covers fully or partially, times max(0, (dayEnd - dayStart) - 60);
\* never negative, and a partially covered day counts nothing.
C13_CapacityMinutes ==
    GridShown =>
        \A c \in Cells :
            /\ grid.cap_min[c] >= 0
            /\ grid.cap_min[c] =
                   Cardinality({d \in grid.periods[c[2]].start .. grid.periods[c[2]].end :
                                  /\ (d % 7) \in People[c[1]].work_days
                                  /\ ~DayTouched(c[1], d)})
                       * DailyCapacity(c[1])

\* the percentage a view shows in a cell
Shown(c) == IF grid.view = "portfolio" THEN grid.cell_sum[c] ELSE grid.pct[c]

\* C11: a cell of a person and period with 0 capacity minutes (no workday in
\* the period, every workday touched by time off, or a daily capacity of 0)
\* shows 0 %, whatever percentage, ad-hoc and minute allocations meet the period.
C11_ZeroCapacityIsZero ==
    GridShown => \A c \in Cells : grid.cap_min[c] = 0 => Shown(c) = 0

\* the sum of the values of a function with a finite domain
RECURSIVE SumFn(_)
SumFn(f) ==
    IF DOMAIN f = {} THEN 0
    ELSE LET k == CHOOSE x \in DOMAIN f : TRUE
         IN  f[k] + SumFn([x \in DOMAIN f \ {k} |-> f[x]])

\* the product of the values of a function with a finite domain
RECURSIVE ProductFn(_)
ProductFn(f) ==
    IF DOMAIN f = {} THEN 1
    ELSE LET k == CHOOSE x \in DOMAIN f : TRUE
         IN  f[k] * ProductFn([x \in DOMAIN f \ {k} |-> f[x]])

\* the rows of a table that belong to the person and share a date with the period
Meeting(rows, pe, per) ==
    {k \in DOMAIN rows : /\ rows[k].person_id = pe
                         /\ (rows[k].start_date .. rows[k].end_date)
                                \cap (per.start .. per.end) # {}}

DaysInRange(ua) == Cardinality(ua.start_date .. ua.end_date)
OverlapDays(ua, per) ==
    Cardinality((ua.start_date .. ua.end_date) \cap (per.start .. per.end))

\* C12, exact sum: a portfolio cell is the percentages of the
\* person's project allocations meeting the period, plus those of the ad-hoc
\* allocations, plus round(unitMinutesInPeriod / capacity * 100) when the
\* capacity is above 0, where unitMinutesInPeriod is the exact sum of
\* (minutes / daysInRange) * overlapDays over the person's minute allocations.
C12_CellIsExactSum ==
    grid.view = "portfolio" =>
        \A c \in Cells :
            LET per == grid.periods[c[2]]
                A   == Meeting(allocations, c[1], per)
                H   == Meeting(adhoc_allocations, c[1], per)
                U   == Meeting(unit_allocations, c[1], per)
                den == ProductFn([k \in U |-> DaysInRange(unit_allocations[k])])
                num == SumFn([k \in U |-> unit_allocations[k].minutes
                                            * OverlapDays(unit_allocations[k], per)
                                            * (den \div DaysInRange(unit_allocations[k]))])
            IN  grid.cell_sum[c] =
                    SumFn([k \in A |-> allocations[k].percent])
                    + SumFn([k \in H |-> adhoc_allocations[k].percent])
                    + (IF grid.cap_min[c] > 0
                       THEN RoundHalfEven(num * 100, den * grid.cap_min[c]) ELSE 0)

\* C12, rounded per row: a portfolio cell is the percentages of the person's allocations on
\* active projects of the company meeting the period, plus those of the ad-hoc
\* allocations, plus round(unitMinutesInPeriod / capacity * 100) when the
\* capacity is above 0, where unitMinutesInPeriod sums, over the person's
\* minute allocations on active projects, (minutes / daysInRange) * overlapDays
\* rounded to whole minutes row by row; nothing is clamped to 100 and a row
\* that shares no date with the period adds nothing.
C12_CellIsSumOfRoundedParts ==
    grid.view = "portfolio" =>
        \A c \in Cells :
            LET per == grid.periods[c[2]]
                A   == {k \in Meeting(allocations, c[1], per) :
                          allocations[k].project_id \in ActiveProjectIds}
                H   == Meeting(adhoc_allocations, c[1], per)
                U   == {k \in Meeting(unit_allocations, c[1], per) :
                          unit_allocations[k].project_id \in ActiveProjectIds}
                um  == SumFn([k \in U |->
                                RoundHalfEven(unit_allocations[k].minutes
                                                * OverlapDays(unit_allocations[k], per),
                                              DaysInRange(unit_allocations[k]))])
            IN  grid.cell_sum[c] =
                    SumFn([k \in A |-> allocations[k].percent])
                    + SumFn([k \in H |-> adhoc_allocations[k].percent])
                    + (IF grid.cap_min[c] > 0
                       THEN RoundHalfEven(um * 100, grid.cap_min[c]) ELSE 0)

\* a cell above 100 % made of an allocation, an ad-hoc allocation and unit
\* minutes at once, next to a cell the person's rows do not reach
C12_Witness ==
    /\ grid.view = "portfolio"
    /\ \E c \in Cells :
          /\ grid.cell_sum[c] > 100
          /\ grid.cap_min[c] > 0
          /\ grid.unit_minutes[c] > 0
          /\ Meeting(allocations, c[1], grid.periods[c[2]]) # {}
          /\ Meeting(adhoc_allocations, c[1], grid.periods[c[2]]) # {}
          /\ \E c2 \in Cells :
                /\ c2[1] = c[1]
                /\ Meeting(allocations, c2[1], grid.periods[c2[2]]) = {}
                /\ grid.cell_sum[c2] = 0

\* the workdays of the allocation's person within the allocation's own range
WorkdaysOf(a) ==
    Cardinality({d \in a.start_date .. a.end_date : (d % 7) \in People[a.person_id].work_days})

\* C14: in the scope summary of a project, scope is the budget override when
\* one is set and the sum of the WorkItems' total_minutes otherwise; planned is
\* plannedFromPercent + plannedFromMinutes; plannedFromMinutes is the sum of
\* the minutes of the project's minute allocations; plannedFromPercent is the
\* sum, over the project's percent allocations and the workdays of their
\* person in their range, of the daily capacity times percent / 100; and
\* over = max(0, planned - scope), above 0 exactly when planned > scope.
C14_ScopeSummary ==
    grid.view = "portfolio" =>
        \A i \in DOMAIN grid.proj_totals :
            LET t  == grid.proj_totals[i]
                A  == {k \in DOMAIN allocations : allocations[k].project_id = i}
                U  == {k \in DOMAIN unit_allocations : unit_allocations[k].project_id = i}
                W  == {k \in DOMAIN WorkItems : WorkItems[k].project_id = i}
            IN  /\ t.scope = IF Projects[i].budget_minutes > 0
                             THEN Projects[i].budget_minutes
                             ELSE SumFn([k \in W |-> WorkItems[k].total_minutes])
                /\ t.planned = t.planned_pct + t.planned_units
                /\ t.planned_units = SumFn([k \in U |-> unit_allocations[k].minutes])
                /\ 100 * t.planned_pct =
                       SumFn([k \in A |-> WorkdaysOf(allocations[k])
                                            * DailyCapacity(allocations[k].person_id)
                                            * allocations[k].percent])
                /\ t.over = Max(0, t.planned - t.scope)
                /\ (t.over > 0) <=> (t.planned > t.scope)

(***************************************************************************)
(* Two requests running auto_schedule_next_available_same_person for the   *)
(* same person at once, each in its own session: the busy read (lines      *)
(* 100-110) and the insert with its commit (lines 130-144) are separate    *)
(* steps, and the steps of the two runs interleave.                        *)
(***************************************************************************)

RunIds == {1, 2}

\* only the rows from before the runs are visible
ReadSeedOnly(bl) == SubSeq(bl, 1, Min(Len(bl), nSeed))

\* the rows a select executed now returns: every committed row
ReadCommitted(bl) == bl

\* the free list is computed again when the block is about to be inserted
SlotRechecked(free, fresh, cur, rem) == FindSlot(fresh, cur, rem)

\* the for loop scans the free list computed from the busy read of this iteration
SlotOf(free, fresh, cur, rem) == FindSlot(free, cur, rem)

RunLoopCond(r) == runs[r].remaining > 0 /\ runs[r].cursor < runs[r].end_horizon
RunClamped(r)  == Max(runs[r].cursor, _day_bounds(person, runs[r].cursor).start)

\* the free list of the day of the run's cursor, from the rows committed now
FreeNow(r) ==
    LET db == _day_bounds(person, runs[r].cursor)
    IN  _subtract_intervals(<<db.start, db.end>>,
                            BusyForDay(ReadCommitted(blocks), timeoffs, person.id,
                                       db.start, db.end))

RunSlot(r) == SlotOf(runs[r].free, FreeNow(r), RunClamped(r), runs[r].remaining)

RunIdle(w) ==
    [pc |-> "idle", wi |-> w, cursor |-> 0, end_horizon |-> 0, remaining |-> 0,
     created_ids |-> <<>>, free |-> <<>>, seen |-> 0, read_at |-> <<>>]

\* lines 68-80
RunStart(r, f, hw) ==
    /\ runs[r].pc = "idle"
    /\ runs' = [runs EXCEPT ![r] =
                  [@ EXCEPT !.pc = "loop",
                            !.remaining = Max(0, runs[r].wi.total_minutes
                                - ScheduledMinutes(ReadCommitted(blocks), runs[r].wi.id,
                                                   person.id)),
                            !.cursor = _ceil_to_snap(f, WEEK_SNAP_MIN),
                            !.end_horizon = _ceil_to_snap(f, WEEK_SNAP_MIN) + Weeks(hw)]]
    /\ UNCHANGED <<subVars, schedVars, allocVars, snapVars, viewVars, restVars>>

\* lines 84-86
RunSkipNonWorkday(r) ==
    /\ runs[r].pc = "loop" /\ RunLoopCond(r)
    /\ ~_is_workday(person, runs[r].cursor)
    /\ runs' = [runs EXCEPT ![r].cursor =
                  At(Date(At(Date(@), 0, 0, 0, 0) + Days(1)), 8, 0, 0, 0)]
    /\ UNCHANGED <<subVars, schedVars, allocVars, snapVars, viewVars, restVars>>

\* lines 88-94
RunPastDayEnd(r) ==
    /\ runs[r].pc = "loop" /\ RunLoopCond(r)
    /\ _is_workday(person, runs[r].cursor)
    /\ RunClamped(r) >= _day_bounds(person, runs[r].cursor).end
    /\ runs' = [runs EXCEPT ![r].cursor = NextDayStart(_day_bounds(person, @).start)]
    /\ UNCHANGED <<subVars, schedVars, allocVars, snapVars, viewVars, restVars>>

\* lines 96-110: the two selects and the free list; seen is the number of
\* ScheduleBlock rows committed when the select ran
RunReadBusy(r) ==
    /\ runs[r].pc = "loop" /\ RunLoopCond(r)
    /\ _is_workday(person, runs[r].cursor)
    /\ RunClamped(r) < _day_bounds(person, runs[r].cursor).end
    /\ runs' = [runs EXCEPT ![r] = [@ EXCEPT !.pc = "scan", !.free = FreeNow(r),
                                              !.seen = Len(blocks)]]
    /\ UNCHANGED <<subVars, schedVars, allocVars, snapVars, viewVars, restVars>>

\* lines 112-144: a free interval yields a block; it is added and committed
RunPlace(r) ==
    /\ runs[r].pc = "scan"
    /\ RunSlot(r) # <<>>
    /\ LET start     == RunSlot(r)[1]
           block_min == RunSlot(r)[2]
           new_block == Block(person.id, runs[r].wi.id, start, start + Minutes(block_min),
                              FALSE)
       IN  /\ blocks' = Append(blocks, new_block)
           /\ runs' = [runs EXCEPT ![r] =
                         [@ EXCEPT !.pc = "loop",
                                   !.created_ids = Append(@, Len(blocks) + 1),
                                   !.read_at = Append(@, runs[r].seen),
                                   !.remaining = @ - block_min,
                                   !.cursor = new_block.end]]
    /\ UNCHANGED <<subVars, person, wi, timeoffs, nSeed, runVars, allocVars, snapVars,
                   viewVars, restVars>>

\* lines 112-128, 146-148: no free interval yields a block
RunNoSlot(r) ==
    /\ runs[r].pc = "scan"
    /\ RunSlot(r) = <<>>
    /\ runs' = [runs EXCEPT ![r] =
                  [@ EXCEPT !.pc = "loop",
                            !.cursor = NextDayStart(_day_bounds(person, @).start)]]
    /\ UNCHANGED <<subVars, schedVars, allocVars, snapVars, viewVars, restVars>>

\* line 150
RunReturn(r) ==
    /\ runs[r].pc = "loop" /\ ~RunLoopCond(r)
    /\ runs' = [runs EXCEPT ![r].pc = "done"]
    /\ UNCHANGED <<subVars, schedVars, allocVars, snapVars, viewVars, restVars>>

ConcFrom == {At(Mon, 7, 0, 0, 0), At(Mon, 9, 30, 0, 1), At(Mon, 16, 30, 0, 0)}
ConcMinutes == {120, 180}

ConcInit ==
    /\ SubIdle /\ AllocIdle /\ SnapIdle /\ ViewIdle /\ RestIdle
    /\ person = Profile(<<8, 0>>, <<17, 0>>, MonFri)
    /\ wi = [id |-> 1, total_minutes |-> 0]
    /\ \E st \in SeedTables(1, 3) : blocks = st[1] /\ timeoffs = st[2] /\ nSeed = Len(st[1])
    /\ pc = "idle"
    /\ from_dt = 0 /\ cursor = 0 /\ end_horizon = 0 /\ remaining = 0
    /\ created_ids = <<>>
    /\ result = [created_block_ids |-> <<>>, remaining_minutes |-> 0]
    /\ runs \in {[r \in RunIds |-> RunIdle([id |-> r, total_minutes |-> t[r]])] :
                   t \in [RunIds -> ConcMinutes]}

ConcNext ==
    \E r \in RunIds :
        \/ \E f \in ConcFrom, hw \in 1 .. MaxHorizonWeeks : RunStart(r, f, hw)
        \/ RunSkipNonWorkday(r)
        \/ RunPastDayEnd(r)
        \/ RunReadBusy(r)
        \/ RunPlace(r)
        \/ RunNoSlot(r)
        \/ RunReturn(r)

ConcSpec == ConcInit /\ [][ConcNext]_vars

(***************************************************************************)
(* Properties of concurrent runs.                                          *)
(***************************************************************************)

\* the step is run r's busy read, or run r's insert and commit
Reading(r) == runs[r].pc = "loop" /\ runs'[r].pc = "scan"
Placing(r) == runs[r].pc = "scan" /\ runs'[r].pc = "loop" /\ Len(blocks') = Len(blocks) + 1

\* the blocks run r created, as <<row id, rows committed at the busy read>>
CreatedBy(r) ==
    {<<runs[r].created_ids[k], runs[r].read_at[k]>> : k \in 1 .. Len(runs[r].created_ids)}

\* C17: a block is committed before the next busy read of its run, and a busy
\* read that happens after a commit sees the block: the free list of the read
\* leaves out every block of the person committed before it (the run's own
\* and the other run's), and the block then placed overlaps none of them.
C17_CommitVisibleToLaterReads ==
    [][\A r \in RunIds :
          /\ Reading(r) =>
                /\ \A c \in CreatedBy(r) : c[1] <= runs'[r].seen
                /\ \A k \in 1 .. runs'[r].seen :
                      blocks[k].person_id = person.id =>
                          \A n \in 1 .. Len(runs'[r].free) :
                              ~(/\ runs'[r].free[n][1] < blocks[k].end
                                /\ blocks[k].start < runs'[r].free[n][2])
          /\ Placing(r) =>
                \A k \in 1 .. runs[r].seen :
                    blocks[k].person_id = person.id =>
                        ~Overlap(blocks[k], blocks'[Len(blocks')])]_vars

\* two blocks of different runs on the same day, the later one placed from a
\* busy read that came after the commit of the earlier one
C17_Witness ==
    \E r \in RunIds : \E s \in RunIds \ {r} :
        \E c \in CreatedBy(r), d \in CreatedBy(s) :
            /\ d[2] >= c[1]
            /\ Date(blocks[c[1]].start) = Date(blocks[d[1]].start)
            /\ blocks[d[1]].start >= blocks[c[1]].end

\* C18: nothing serializes the runs of one person: a run that has read the
\* busy set of a day inserts and commits the slot it found in that read,
\* whatever the other run has committed since, so two runs that both read
\* before either commits both commit.
C18_CommitsWhatTheReadFound ==
    [][\A r \in RunIds :
          (runs[r].pc = "scan" /\ runs'[r] # runs[r]
           /\ FindSlot(runs[r].free, RunClamped(r), runs[r].remaining) # <<>>) =>
              LET slot == FindSlot(runs[r].free, RunClamped(r), runs[r].remaining)
                  b    == blocks'[Len(blocks')]
              IN  /\ Placing(r)
                  /\ b.start = slot[1]
                  /\ b.end = slot[1] + Minutes(slot[2])]_vars

\* double booking: two overlapping blocks of different runs, each placed from
\* a busy read made before either of the two was committed
C18_Witness ==
    \E r \in RunIds : \E s \in RunIds \ {r} :
        \E c \in CreatedBy(r), d \in CreatedBy(s) :
            /\ c[2] < Min(c[1], d[1])
            /\ d[2] < Min(c[1], d[1])
            /\ blocks[c[1]].person_id = blocks[d[1]].person_id
            /\ Overlap(blocks[c[1]], blocks[d[1]])

(***************************************************************************)
(* Validation of the allocation requests.                                  *)
(***************************************************************************)

\* C19: no percent allocation whose end date is before its start date is ever
\* persisted: such a request is rejected and leaves the tables as they were.
C19_NoInvertedRangePersisted ==
    \A k \in DOMAIN allocations : allocations[k].start_date <= allocations[k].end_date

\* C20: a create or update of a percent or minute allocation that names a
\* Person, Project or WorkItem that does not exist or belongs to another
\* company is rejected, so every persisted row names a project and a person
\* of its own company (and a work item of its project).
C20_ForeignReferencesRejected ==
    /\ \A k \in DOMAIN allocations :
          LET a == allocations[k]
          IN  /\ a.project_id \in DOMAIN Projects
              /\ Projects[a.project_id].company_id = a.company_id
              /\ a.person_id \in DOMAIN People
              /\ People[a.person_id].company_id = a.company_id
    /\ \A k \in DOMAIN unit_allocations :
          LET ua == unit_allocations[k]
          IN  /\ ua.project_id \in DOMAIN Projects
              /\ Projects[ua.project_id].company_id = ActiveCompany
              /\ ua.work_item_id \in DOMAIN WorkItems
              /\ WorkItems[ua.work_item_id].project_id = ua.project_id
              /\ ua.person_id \in DOMAIN People
              /\ People[ua.person_id].company_id = ActiveCompany

(***************************************************************************)
(* Further properties of the scheduler: grid, horizon, frame, remainder.   *)
(***************************************************************************)

\* C21: every block a run creates starts and ends on a whole hour (minute,
\* second and microsecond 0), whatever from_dt, the day bounds and the
\* endpoints of the busy intervals are.
C21_BlocksOnWholeHours ==
    \A i \in AutoIds :
        /\ Minute(blocks[i].start) = 0 /\ Second(blocks[i].start) = 0
        /\ Microsecond(blocks[i].start) = 0
        /\ Minute(blocks[i].end) = 0 /\ Second(blocks[i].end) = 0
        /\ Microsecond(blocks[i].end) = 0

\* a block created for a day that starts at 08:30, or one created next to
\* a busy row whose end is off the grid, from a from_dt off the grid
C21_Witness ==
    /\ AutoIds # {}
    /\ \/ person.work_start[2] # 0
       \/ /\ from_dt % TicksPerHour # 0
          /\ \E i \in AutoIds, j \in 1 .. nSeed :
                /\ blocks[j].person_id = person.id
                /\ blocks[j].end % TicksPerHour # 0
                /\ Date(blocks[j].start) = Date(blocks[i].start)

\* C22: every block of a run starts at or after snap(from_dt) and lies
\* entirely before end_horizon = snap(from_dt) + horizon_weeks weeks.
C22_BlocksWithinHorizon ==
    \A i \in ThisRunIds :
        /\ blocks[i].start >= _ceil_to_snap(from_dt, WEEK_SNAP_MIN)
        /\ blocks[i].start < end_horizon
        /\ blocks[i].end <= end_horizon

\* the rows of (work item, person) that the current run did not create
EarlierMinutes ==
    SumMinutes({i \in 1 .. Len(blocks) :
                  /\ i \notin ThisRunIds
                  /\ blocks[i].work_item_id = wi.id
                  /\ blocks[i].person_id = person.id})

\* what the run found remaining at entry
InitialRemaining == Max(0, wi.total_minutes - EarlierMinutes)

\* C23: a run only appends to the ScheduleBlock table: the rows that exist
\* stay as they are and no TimeOff row changes; every row it adds is unlocked
\* and carries the run's work item and person; and a run that finds nothing
\* remaining at entry adds no row and returns no id.
C23_AppendOnly ==
    /\ [][/\ timeoffs' = timeoffs
          /\ Len(blocks') >= Len(blocks)
          /\ SubSeq(blocks', 1, Len(blocks)) = blocks
          /\ \A i \in (Len(blocks) + 1) .. Len(blocks') :
                /\ blocks'[i].locked = FALSE
                /\ blocks'[i].work_item_id = wi.id
                /\ blocks'[i].person_id = person.id
          /\ (pc = "loop" /\ remaining = 0 /\ created_ids = <<>>) =>
                /\ blocks' = blocks
                /\ pc' = "done"
                /\ result'.created_block_ids = <<>>]_vars
    /\ [](\A i \in AutoIds : blocks[i].locked = FALSE)

\* a run that found nothing remaining has returned, in a table holding rows
\* from before the runs and rows of an earlier run
C23_Witness ==
    /\ pc = "done"
    /\ InitialRemaining = 0
    /\ result.created_block_ids = <<>>
    /\ nSeed > 0
    /\ Len(blocks) > nSeed

\* C26: remaining_minutes is congruent modulo 60 to what was remaining at
\* entry; when that is no multiple of 60 the run never returns 0 but scans to
\* the horizon end.
C26_RemainderNeverScheduled ==
    /\ pc \in {"loop", "done"} =>
          remaining % WEEK_SNAP_MIN = InitialRemaining % WEEK_SNAP_MIN
    /\ (pc = "done" /\ InitialRemaining % WEEK_SNAP_MIN # 0) =>
          /\ result.remaining_minutes > 0
          /\ result.remaining_minutes % WEEK_SNAP_MIN = InitialRemaining % WEEK_SNAP_MIN
          /\ cursor >= end_horizon

\* a run for 150 minutes returned 30, having placed blocks on a day with free
\* hours left after them
C26_Witness ==
    /\ pc = "done"
    /\ wi.total_minutes = 150
    /\ result.remaining_minutes = 30
    /\ Len(result.created_block_ids) > 0
    /\ cursor >= end_horizon
    /\ end_horizon > _ceil_to_snap(from_dt, WEEK_SNAP_MIN)

\* ------------------------------------------------------------------------
\* The two workday predicates
\* ------------------------------------------------------------------------

\* How many dates the predicates are asked about, counted from day 0.
ProbeDays == 21

\* work_days columns to ask about: the default, a part-time week, the empty
\* string, the whole week, a weekend, a number that names no weekday, and a
\* mix of a weekday with such a number.
WorkdaySets == {MonFri, {0, 2}, {}, 0 .. 6, {5, 6}, {7}, {2, 9}}

WorkdayProfiles == {Profile(<<8, 0>>, <<17, 0>>, wd) : wd \in WorkdaySets}

\* Capacity of the seven dates from d0 on when nobody is off: the loop of
\* _capacity_hours_in_range, in minutes.
WeekCapacity(p, d0) ==
    Cardinality({cur \in d0 .. d0 + 6 : _is_workday_of_date(p, cur)}) * _workday_minutes(p)

\* Both predicates answer for the same person and the same date.
is_workday(p, d0) ==
    /\ probe' = [op        |-> "asked",
                 person    |-> p,
                 date      |-> d0,
                 scheduler |-> _is_workday(p, At(d0, 0, 0, 0, 0)),
                 engine    |-> _is_workday_of_date(p, d0),
                 capacity  |-> WeekCapacity(p, d0)]
    /\ UNCHANGED <<subVars, schedVars, allocVars, snapVars, viewVars, concVars, txs, deleted>>

WorkdayInit == SubIdle /\ SchedIdle /\ AllocIdle /\ ExtIdle

WorkdayNext == \E p \in WorkdayProfiles, d0 \in 0 .. ProbeDays - 1 : is_workday(p, d0)

WorkdaySpec == WorkdayInit /\ [][WorkdayNext]_vars

\* C28: the scheduler's workday predicate and the capacity engine's workday
\* predicate give the same answer for every profile and date, and a person
\* whose work_days is empty has no capacity and no workday to be scheduled on.
C28_WorkdayPredicatesAgree ==
    probe.op = "asked" =>
        /\ probe.scheduler = probe.engine
        /\ probe.person.work_days = {} =>
               /\ probe.capacity = 0
               /\ ~probe.scheduler

\* ------------------------------------------------------------------------
\* Further properties of the allocation write paths
\* ------------------------------------------------------------------------

\* C24: every persisted percent allocation and every persisted ad-hoc
\* allocation has a percent from 0 to 100.
C24_PercentWithinRange ==
    /\ \A k \in DOMAIN allocations : allocations[k].percent \in 0 .. 100
    /\ \A k \in DOMAIN adhoc_allocations : adhoc_allocations[k].percent \in 0 .. 100

\* C27: every persisted minute allocation has more than zero minutes.
C27_MinutesPositive ==
    \A k \in DOMAIN unit_allocations : unit_allocations[k].minutes > 0

api_adhoc_create(data) ==
    /\ Len(adhoc_allocations) < MaxRows
    /\ IF data.person_id \notin PersonIds
          \/ People[data.person_id].company_id # ActiveCompany
       THEN UNCHANGED adhoc_allocations                  \* 404 Person not found
       ELSE adhoc_allocations' =
                Append(adhoc_allocations,
                       AdhocRow(data.person_id, data.start_date, data.end_date, data.percent))
    /\ UNCHANGED <<subVars, schedVars, allocVars, snapVars, grid, concVars, restVars>>

\* POST /company/members/{member_id}/delete.  A member and the Person row of
\* that member carry the same number here.
company_members_delete(member_id) ==
    /\ IF member_id \notin PersonIds
          \/ People[member_id].company_id # ActiveCompany
       THEN UNCHANGED <<allocations, unit_allocations, timeoffs, blocks, deleted>>   \* 404
       ELSE LET proj_ids == {p \in ProjectIds : Projects[p].company_id = ActiveCompany}
                GoneAlloc(a) == a.company_id = ActiveCompany /\ a.person_id = member_id
                GoneUnit(ua) == ua.person_id = member_id /\ ua.project_id \in proj_ids
                GoneOff(o)   == o.person_id = member_id
                GoneBlock(b) == b.person_id = member_id
            IN  /\ allocations' = SelectSeq(allocations, LAMBDA r : ~GoneAlloc(r))
                /\ unit_allocations' = SelectSeq(unit_allocations, LAMBDA r : ~GoneUnit(r))
                /\ timeoffs' = SelectSeq(timeoffs, LAMBDA r : ~GoneOff(r))
                /\ blocks' = SelectSeq(blocks, LAMBDA r : ~GoneBlock(r))
                /\ deleted' = [deleted EXCEPT !.people = @ \cup {member_id}]
    /\ UNCHANGED <<subVars, person, wi, nSeed, runVars, call, response, snapVars, viewVars,
                   concVars, probe, txs>>

\* POST /projects/{project_id}/delete.
project_delete(project_id) ==
    /\ IF project_id \notin ProjectIds
          \/ Projects[project_id].company_id # ActiveCompany
       THEN UNCHANGED <<allocations, unit_allocations, blocks, deleted>>             \* 404
       ELSE LET wi_ids == {w \in WorkItemIds : WorkItems[w].project_id = project_id}
                GoneUnit(ua) == ua.work_item_id \in wi_ids \/ ua.project_id = project_id
                GoneBlock(b) == b.work_item_id \in wi_ids
                GoneAlloc(a) == a.project_id = project_id
            IN  /\ unit_allocations' = SelectSeq(unit_allocations, LAMBDA r : ~GoneUnit(r))
                /\ blocks' = SelectSeq(blocks, LAMBDA r : ~GoneBlock(r))
                /\ allocations' = SelectSeq(allocations, LAMBDA r : ~GoneAlloc(r))
                /\ deleted' = [deleted EXCEPT !.work_items = @ \cup wi_ids,
                                              !.projects = @ \cup {project_id}]
    /\ UNCHANGED <<subVars, person, wi, timeoffs, nSeed, runVars, call, response, snapVars,
                   viewVars, concVars, probe, txs>>

\* POST /projects/{project_id}/workitems/{work_item_id}/delete.
project_workitem_delete(project_id, work_item_id) ==
    /\ IF \/ project_id \notin ProjectIds
          \/ Projects[project_id].company_id # ActiveCompany             \* 404
          \/ Projects[project_id].budget_minutes > 0                     \* budget mode
          \/ work_item_id \notin WorkItemIds
          \/ WorkItems[work_item_id].project_id # project_id             \* 404
       THEN UNCHANGED <<unit_allocations, blocks, deleted>>
       ELSE LET GoneUnit(ua) == ua.work_item_id = work_item_id
                GoneBlock(b) == b.work_item_id = work_item_id
            IN  /\ unit_allocations' = SelectSeq(unit_allocations, LAMBDA r : ~GoneUnit(r))
                /\ blocks' = SelectSeq(blocks, LAMBDA r : ~GoneBlock(r))
                /\ deleted' = [deleted EXCEPT !.work_items = @ \cup {work_item_id}]
    /\ UNCHANGED <<subVars, person, wi, timeoffs, nSeed, runVars, allocations, call, response,
                   snapVars, viewVars, concVars, probe, txs>>

\* Time off and schedule blocks on record before the first deletion.
CascadeOffs ==
    { <<>>,
      <<Off(1, At(Tue, 12, 0, 0, 0), At(Tue, 15, 0, 0, 0)),
        Off(2, At(Mon, 0, 0, 0, 0), At(Sat, 0, 0, 0, 0))>> }

CascadeBlocks ==
    { <<>>,
      <<Block(1, 1, At(Mon, 8, 0, 0, 0), At(Mon, 10, 0, 0, 0), FALSE),
        Block(2, 2, At(Mon, 8, 0, 0, 0), At(Mon, 11, 0, 0, 0), TRUE),
        Block(1, 3, At(Wed, 8, 0, 0, 0), At(Wed, 9, 0, 0, 0), FALSE)>> }

CascadeAllocData == {AllocReq(1, 1, 0, 100, FALSE), AllocReq(2, 2, 0, 50, TRUE)}

CascadeUnitData == {UnitReq(1, 1, 1, 200, FALSE), UnitReq(1, 2, 2, 100, FALSE)}

CascadeAdhocData == {AdhocRow(1, 0, 1, 50), AdhocRow(3, 0, 0, 25)}

CascadeInit ==
    /\ SubIdle /\ AllocIdle /\ ExtIdle
    /\ person = Profile(<<8, 0>>, <<17, 0>>, MonFri)
    /\ wi = [id |-> 1, total_minutes |-> 0]
    /\ timeoffs \in CascadeOffs
    /\ blocks \in CascadeBlocks
    /\ nSeed = Len(blocks)
    /\ pc = "idle"
    /\ from_dt = 0 /\ cursor = 0 /\ end_horizon = 0 /\ remaining = 0
    /\ created_ids = <<>>
    /\ result = [created_block_ids |-> <<>>, remaining_minutes |-> 0]

CascadeNext ==
    \/ \E d \in CascadeAllocData : api_alloc_create(d)
    \/ \E d \in CascadeUnitData : api_unit_alloc_create(d)
    \/ \E d \in CascadeAdhocData : api_adhoc_create(d)
    \/ \E m \in 1 .. 3 : company_members_delete(m)
    \/ \E p \in 1 .. 3 : project_delete(p)
    \/ \E p \in 1 .. 2, w \in 1 .. 3 : project_workitem_delete(p, w)

CascadeSpec == CascadeInit /\ [][CascadeNext]_vars

\* C30: no percent allocation, ad-hoc allocation, minute allocation, time off
\* or schedule block names a Person, Project or WorkItem that has been
\* deleted.
C30_NoDanglingReference ==
    /\ \A k \in DOMAIN allocations :
          allocations[k].person_id \in PersonIds /\ allocations[k].project_id \in ProjectIds
    /\ \A k \in DOMAIN adhoc_allocations : adhoc_allocations[k].person_id \in PersonIds
    /\ \A k \in DOMAIN unit_allocations :
          /\ unit_allocations[k].person_id \in PersonIds
          /\ unit_allocations[k].project_id \in ProjectIds
          /\ unit_allocations[k].work_item_id \in WorkItemIds
    /\ \A k \in DOMAIN timeoffs : timeoffs[k].person_id \in PersonIds
    /\ \A k \in DOMAIN blocks :
          blocks[k].person_id \in PersonIds /\ blocks[k].work_item_id \in WorkItemIds

\* ------------------------------------------------------------------------
\* Allocation requests of several sessions side by side
\* ------------------------------------------------------------------------
\* Every request opens a Session of its own on the one engine of db.py.  A
\* handler is a coroutine with no await between get_session() and the commit,
\* so the requests of one server process run one after the other, while the
\* requests of different processes meet in the database only.  A session
\* reads what is committed and what it has flushed itself.

SessionIds == {1, 2, 3}

\* The server process that handles the request of a session: sessions 1 and 2
\* share a process, session 3 belongs to another one.
WorkerOf(s) == IF s = 3 THEN 2 ELSE 1

\* The two engines of _make_engine.
Engines == {"sqlite", "postgresql"}

Closed(e, w, status) == [pc |-> "closed", engine |-> e, worker |-> w, status |-> status]

InFlight(s) == txs[s].pc \in {"flushed", "recomputed"}

\* The event loop of the process is free to run the handler.
MayRun(s) == \A o \in SessionIds \ {s} : txs[o].worker = txs[s].worker => ~InFlight(o)

\* SQLite has one writer at a time: the first INSERT or UPDATE of a session
\* waits for the write lock until the holder commits or rolls back.
WriteLockFree(s) ==
    txs[s].engine = "sqlite" => \A o \in SessionIds \ {s} : ~InFlight(o)

\* PostgreSQL makes an UPDATE wait for the session that has updated the same
\* row and not yet ended.
RowLockFree(s, ua_id) ==
    \A o \in SessionIds \ {s} :
        ~(InFlight(o) /\ txs[o].kind = "unit_update" /\ txs[o].id = ua_id)

\* The tables as the statements of the session see them: the committed rows
\* and the change the session has flushed.
SessionView(s) ==
    LET t == txs[s]
    IN  CASE t.kind = "alloc_create" -> Tables(Append(allocations, t.row), unit_allocations)
          [] t.kind = "unit_create"  -> Tables(allocations, Append(unit_allocations, t.row))
          [] t.kind = "unit_update"  ->
                 Tables(allocations, [unit_allocations EXCEPT ![t.id] = t.row])

Flushed(s, kind, id, row, project_id, allow_over) ==
    [pc |-> "flushed", engine |-> txs[s].engine, worker |-> txs[s].worker, status |-> 0,
     kind |-> kind, id |-> id, row |-> row, project_id |-> project_id,
     allow_over |-> allow_over]

Refused(s, status) == Closed(txs[s].engine, txs[s].worker, status)

StagedRows == Cardinality({o \in SessionIds : InFlight(o) /\ txs[o].kind # "unit_update"})

\* api_alloc_create up to session.flush().
alloc_create_flush(s, data) ==
    /\ txs[s].pc = "closed" /\ MayRun(s) /\ WriteLockFree(s)
    /\ RowCount + StagedRows < MaxRows
    /\ txs' = [txs EXCEPT ![s] =
                 IF data.project_id \notin ProjectIds
                    \/ Projects[data.project_id].company_id # ActiveCompany
                 THEN Refused(s, 404)
                 ELSE Flushed(s, "alloc_create", 0,
                              [company_id |-> ActiveCompany, project_id |-> data.project_id,
                               person_id |-> data.person_id, start_date |-> data.start_date,
                               end_date |-> data.end_date, percent |-> data.percent],
                              data.project_id, data.allow_over)]
    /\ UNCHANGED <<subVars, schedVars, allocVars, snapVars, viewVars, concVars, probe, deleted>>

\* api_unit_alloc_create up to session.flush().
unit_alloc_create_flush(s, data) ==
    /\ txs[s].pc = "closed" /\ MayRun(s) /\ WriteLockFree(s)
    /\ RowCount + StagedRows < MaxRows
    /\ txs' = [txs EXCEPT ![s] =
                 IF data.project_id \notin ProjectIds
                    \/ Projects[data.project_id].company_id # ActiveCompany
                 THEN Refused(s, 404)
                 ELSE IF Projects[data.project_id].budget_minutes > 0
                 THEN Refused(s, 400)
                 ELSE IF data.work_item_id \notin WorkItemIds
                         \/ WorkItems[data.work_item_id].project_id # data.project_id
                 THEN Refused(s, 404)
                 ELSE IF data.person_id \notin PersonIds
                         \/ People[data.person_id].company_id # ActiveCompany
                 THEN Refused(s, 404)
                 ELSE IF data.minutes <= 0
                 THEN Refused(s, 400)
                 ELSE LET bucket == _week_bucket(data.start_date)
                      IN  Flushed(s, "unit_create", 0,
                                  [project_id |-> data.project_id,
                                   work_item_id |-> data.work_item_id,
                                   person_id |-> data.person_id, start_date |-> bucket[1],
                                   end_date |-> bucket[2], minutes |-> data.minutes],
                                  data.project_id, data.allow_over)]
    /\ UNCHANGED <<subVars, schedVars, allocVars, snapVars, viewVars, concVars, probe, deleted>>

\* api_unit_alloc_update up to session.flush(), for a request that names the
\* minutes.
unit_alloc_update_flush(s, ua_id, data) ==
    /\ txs[s].pc = "closed" /\ MayRun(s) /\ WriteLockFree(s)
    /\ ua_id \in DOMAIN unit_allocations => RowLockFree(s, ua_id)
    /\ txs' = [txs EXCEPT ![s] =
                 IF ua_id \notin DOMAIN unit_allocations
                 THEN Refused(s, 404)
                 ELSE LET old == unit_allocations[ua_id]
                          bucket == _week_bucket(old.start_date)
                      IN  IF old.project_id \notin ProjectIds
                             \/ Projects[old.project_id].company_id # ActiveCompany
                          THEN Refused(s, 403)
                          ELSE IF Projects[old.project_id].budget_minutes > 0
                          THEN Refused(s, 400)
                          ELSE Flushed(s, "unit_update", ua_id,
                                       [old EXCEPT !.start_date = bucket[1],
                                                   !.end_date = bucket[2],
                                                   !.minutes = data.minutes],
                                       old.project_id, FALSE)]
    /\ UNCHANGED <<subVars, schedVars, allocVars, snapVars, viewVars, concVars, probe, deleted>>

\* totals = _project_scope_planned(session, company.id, project_id)
recompute(s) ==
    /\ txs[s].pc = "flushed"
    /\ txs' = [txs EXCEPT ![s] =
                 [txs[s] EXCEPT !.pc = "recomputed"] @@
                 [totals |-> _project_scope_planned(SessionView(s), ActiveCompany,
                                                    txs[s].project_id)]]
    /\ UNCHANGED <<subVars, schedVars, allocVars, snapVars, viewVars, concVars, probe, deleted>>

\* session.rollback() and 409, or session.commit() and 200.
commit_or_rollback(s) ==
    /\ txs[s].pc = "recomputed"
    /\ IF txs[s].totals.planned > txs[s].totals.scope /\ ~txs[s].allow_over
       THEN /\ txs' = [txs EXCEPT ![s] = Refused(s, 409)]
            /\ UNCHANGED <<allocations, unit_allocations>>
       ELSE /\ txs' = [txs EXCEPT ![s] = Refused(s, 200)]
            /\ allocations' = SessionView(s).allocations
            /\ unit_allocations' = SessionView(s).unit_allocations
    /\ UNCHANGED <<subVars, schedVars, call, response, snapVars, viewVars, concVars, probe,
                   deleted>>

\* Requests without override; project 1 has a scope of 600 minutes.
TxAllocData == {AllocReq(1, 1, 0, 100, FALSE),     \* 480 minutes
                AllocReq(3, 1, 0, 100, FALSE)}     \* another company's project

TxUnitData == {UnitReq(1, 1, 1, 200, FALSE), UnitReq(1, 2, 2, 100, FALSE)}

TxUpdateData == {[minutes |-> 500], [minutes |-> 100]}

TxInit ==
    /\ SubIdle /\ SchedIdle /\ AllocIdle /\ SnapIdle /\ ViewIdle /\ ConcIdle
    /\ ProbeIdle /\ NothingDeleted
    /\ \E e \in Engines : txs = [s \in SessionIds |-> Closed(e, WorkerOf(s), 0)]

TxNext ==
    \E s \in SessionIds :
        \/ \E d \in TxAllocData : alloc_create_flush(s, d)
        \/ \E d \in TxUnitData : unit_alloc_create_flush(s, d)
        \/ \E id \in 1 .. MaxRows, d \in TxUpdateData : unit_alloc_update_flush(s, id, d)
        \/ recompute(s)
        \/ commit_or_rollback(s)

TxSpec == TxInit /\ [][TxNext]_vars

\* C25: with requests that never override, the committed plan of a project
\* never exceeds its scope, however the requests of the sessions interleave.
C25_ScopeKeptUnderConcurrency ==
    \A p \in ProjectIds : Planned(Committed, p) <= _project_totals(p)

====
